---- MODULE Spec2Model ----
(***************************************************************************)
(* Authentication and session-token core of the Planit backend.            *)
(*                                                                         *)
(* The state is the three Firestore collections the auth controller uses   *)
(* (users, otps, refreshTokens), the tasks and the events collection, the   *)
(* wall clock, and the HTTP requests in flight.                            *)
(* A handler is a chain of awaited calls; every await is a suspension      *)
(* point, so each awaited call (with the synchronous code that follows it  *)
(* up to the next await) is one action, and the actions of two requests in *)
(* flight interleave freely.  What the code computes before an await (a    *)
(* timestamp, a verified token, a generated token pair) is kept in the     *)
(* request record by the step that computes it; the step in which the      *)
(* awaited write lands stores the value so kept.                           *)
(***************************************************************************)
EXTENDS Integers, Sequences, FiniteSets, TLC

(***************************************************************************)
(* Bounds of the model.                                                    *)
(***************************************************************************)
MaxUsers == 2
MaxOtps == 2
MaxTokenDocs == 3

\* Two requests in flight at a time.
Procs == {1, 2}

\* The clock counts tenths of a second (Date has millisecond resolution; a
\* tenth is fine enough to tell two instants of the same second apart and
\* keeps 30 days within TLC's integers).  The instants the clock reads:
\* the start, a tenth of a second later (the same second), the instant an
\* OTP stored at the start expires, and a tenth of a second after that.
Instants == {0, 1, 6000, 6001}
\* The instants that matter to the OTP flows (the expiry boundary) and to
\* the sessions (the same second, and a later one).
OtpInstants == {0, 6000, 6001}
SessionInstants == {0, 1, 6001}

(***************************************************************************)
(* Program constants (tenths of a second unless said otherwise).           *)
(***************************************************************************)
\* storeOTP: expiresAt.setMinutes(getMinutes() + 10)
OtpTtl == 6000
\* storeRefreshToken: expiresAt.setDate(getDate() + 30)
RefreshDocTtl == 25920000
\* generateRefreshToken: expiresIn '30d', in seconds
RefreshJwtTtlSec == 2592000
\* generateAccessToken: expiresIn '7d', in seconds
AccessJwtTtlSec == 604800

(***************************************************************************)
(* Input alphabets.                                                        *)
(***************************************************************************)
\* Email addresses as sequences of character codes: "a@x", "A@X", "b@x".
Emails == {<<97, 64, 120>>, <<65, 64, 88>>, <<98, 64, 120>>}
Passwords == {"Abcdefg1", "Zyxwvut9"}
\* generateOTP draws a 6-digit code; two of them are enough for a collision
\* and for a wrong code.
Codes == {"123456", "654321"}
\* req.body.fullName of every signup.
FullName1 == "Ada Obi"
UserIds == 1..MaxUsers

\* JavaScript's undefined / null for a string-valued field, and "no value
\* yet" for a request field.  The other types have their own absent value:
\* user id 0, the empty email, NoHash, NoToken, NullUser.
Undefined == "undefined"
None == "none"
NoEmail == <<>>
NoHash == <<"undefined">>
NoToken ==
    [secret |-> "none", userId |-> 0, email |-> <<>>, role |-> "none", iat |-> 0]
NoTokens == [accessToken |-> NoToken, refreshToken |-> NoToken]
NullUser ==
    [id |-> 0, email |-> <<>>, password |-> NoHash, fullName |-> "none",
     role |-> "none", isActive |-> FALSE, emailVerified |-> FALSE]
\* req.user when no identity is attached (undefined or null).
NoIdentity == [id |-> 0, email |-> <<>>, role |-> "none", fullName |-> "none"]
\* What is left of a user document after BaseUser.delete: get() finds nothing.
DeletedUser ==
    [email |-> <<>>, password |-> NoHash, fullName |-> "none",
     role |-> "none", isActive |-> FALSE, emailVerified |-> FALSE]
\* A key a request body or an update object does not have (<<>>); a key it
\* has holds <<value>>.  null for a date.
Absent == <<>>
NullTime == -1
\* An update object of PUT /profile with no key: of req.body the model keeps
\* the keys role, password, fullName, email, isActive and emailVerified.
NoProfileUpdates ==
    [role |-> "none", password |-> "none", fullName |-> "none",
     email |-> <<>>, isActive |-> <<>>, emailVerified |-> <<>>]
\* An update object of a task with no key: of a task body the model keeps
\* the keys eventId, plannerId, assignedTo, status, completed, completedAt
\* and updatedAt.
NoUpdates ==
    [eventId |-> <<>>, plannerId |-> <<>>, assignedTo |-> <<>>, status |-> <<>>,
     completed |-> <<>>, completedAt |-> <<>>, updatedAt |-> <<>>]

\* An update object of an event with no key: of an event body the model
\* keeps the keys plannerId, vendors, tasks, status, completed, completedAt
\* and updatedAt.
NoEventUpdates ==
    [plannerId |-> <<>>, vendors |-> <<>>, tasks |-> <<>>, status |-> <<>>,
     completed |-> <<>>, completedAt |-> <<>>, updatedAt |-> <<>>]

ROLES == [PLANNER |-> "planner", VENDOR |-> "vendor", ADMIN |-> "admin"]

VARIABLES
    users,          \* collection 'users': sequence of documents, id = index
    otps,           \* collection 'otps': sequence of documents, id = index
    refreshTokens,  \* collection 'refreshTokens': set of documents with ids
    tokenDocs,      \* number of refreshTokens documents ever added
    now,            \* wall clock, tenths of a second
    procs,          \* the requests in flight, one per slot
    resp,           \* the response sent by the step just taken, or NoResp
    issued,         \* token pairs returned to clients in a 200 response
    exchanged,      \* refresh tokens a completed successful /refresh presented
    loggedOut,      \* refresh tokens issued before a completed /logout-all
    signedUp,       \* lower-cased emails of completed successful signups
    validCount,     \* per otp document: verifyOTP calls that returned valid
    tasks,          \* collection 'tasks': sequence of documents, id = index
    events          \* collection 'events': sequence of documents, id = index

vars == <<users, otps, refreshTokens, tokenDocs, now, procs, resp,
          issued, exchanged, loggedOut, signedUp, validCount, tasks,
          events>>

(***************************************************************************)
(* Pure helpers.                                                           *)
(***************************************************************************)
\* String.prototype.toLowerCase on a sequence of character codes.
toLowerCase(s) ==
    [i \in DOMAIN s |-> IF s[i] >= 65 /\ s[i] <= 90 THEN s[i] + 32 ELSE s[i]]

\* bcrypt.hash(password, 10): the salt is abstracted, the hash determines
\* the password it was made from.
bcryptHash(password) == <<"bcrypt", password>>

\* bcrypt.compare(data, hash): rejects when an argument is missing.
bcryptCompare(plain, hashed) ==
    IF plain = Undefined \/ hashed = NoHash THEN "throw"
    ELSE IF hashed = bcryptHash(plain) THEN "match" ELSE "mismatch"

\* BaseUser.verifyPassword
verifyPassword(plainPassword, hashedPassword) ==
    bcryptCompare(plainPassword, hashedPassword)

\* BaseUser._sanitizeUser: the returned object has no password property.
_sanitizeUser(userObj) == [userObj EXCEPT !.password = NoHash]

\* Math.floor(Date.now() / 1000), the iat claim jsonwebtoken stamps.
iatOf(t) == t \div 10

\* jwt.sign(payload, secret, {expiresIn}): HMAC signing is deterministic, so
\* the token string is a function of the payload, the secret and iat.
jwtSign(payload, secret, t) ==
    [secret |-> secret, userId |-> payload.userId, email |-> payload.email,
     role |-> payload.role, iat |-> iatOf(t)]

\* TokenManager.generateAccessToken / generateRefreshToken
generateAccessToken(payload, t) == jwtSign(payload, "JWT_SECRET", t)
generateRefreshToken(payload, t) == jwtSign(payload, "JWT_REFRESH_SECRET", t)

\* TokenManager.generateTokens
generateTokens(user, t) ==
    LET payload == [userId |-> user.id, email |-> user.email, role |-> user.role]
    IN  [accessToken |-> generateAccessToken(payload, t),
         refreshToken |-> generateRefreshToken(payload, t)]

\* A token string no secret of the server signed.
ForgedToken ==
    [secret |-> "forged", userId |-> 1, email |-> <<97, 64, 120>>,
     role |-> "planner", iat |-> 0]

\* jwt.verify(token, secret): signature and exp.
jwtVerify(token, secret, ttlSec, t) ==
    /\ token # NoToken
    /\ token.secret = secret
    /\ iatOf(t) < token.iat + ttlSec

\* TokenManager.verifyAccessToken / verifyRefreshToken: TRUE when decoded,
\* FALSE when the call throws; with the mutant that also wants a stored
\* refresh token of the user.
verifyAccessToken_stored(token, t) ==
    /\ jwtVerify(token, "JWT_SECRET", AccessJwtTtlSec, t)
    /\ \E d \in refreshTokens : d.userId = token.userId

verifyAccessToken(token, t) == jwtVerify(token, "JWT_SECRET", AccessJwtTtlSec, t)

verifyRefreshToken(token, t) ==
    jwtVerify(token, "JWT_REFRESH_SECRET", RefreshJwtTtlSec, t)

\* What the catch blocks of verifyAccessToken / verifyRefreshToken throw.
verifyAccessToken_error ==
    [class |-> "Error", message |-> "Invalid or expired token"]
verifyRefreshToken_error ==
    [class |-> "Error", message |-> "Invalid or expired refresh token"]

\* The access token generated in the same generateTokens call.
AccessOf(rt) == [rt EXCEPT !.secret = "JWT_SECRET"]

\* The boundary translator: error type to HTTP status.
statusOf(err) ==
    CASE err = "ValidationError" -> 400
      [] err = "AuthenticationError" -> 401
      [] err = "AuthorizationError" -> 403
      [] err = "NotFoundError" -> 404
      [] err = "ConflictError" -> 409
      [] OTHER -> 500

(***************************************************************************)
(* Store queries and document constructors.                                *)
(***************************************************************************)
\* { id: doc.id, ...doc.data() }
userObj(i) == [id |-> i] @@ users[i]

\* doc.exists
Exists(userId) == userId \in DOMAIN users /\ users[userId] # DeletedUser

\* The document BaseUser.create adds, with the mutant that stores the email
\* as given.
BaseUser_create_keepCase(email, password, role, fullName) ==
    [email |-> email, password |-> bcryptHash(password), fullName |-> fullName,
     role |-> IF role = Undefined THEN ROLES.PLANNER ELSE role,
     isActive |-> TRUE, emailVerified |-> FALSE]

BaseUser_create(email, password, role, fullName) ==
    [email |-> toLowerCase(email), password |-> bcryptHash(password),
     fullName |-> fullName,
     role |-> IF role = Undefined THEN ROLES.PLANNER ELSE role,
     isActive |-> TRUE, emailVerified |-> FALSE]

\* Planner.create: destructures the planner fields and passes
\* role: ROLES.PLANNER to super.create whatever the caller gave.
Planner_create(email, password, role, fullName) ==
    BaseUser_create(email, password, ROLES.PLANNER, fullName)

\* BaseUser.findByEmail: the ids the query where('email','==',lower) matches;
\* limit(1) returns one of them.
findByEmail(email) ==
    {i \in DOMAIN users : Exists(i) /\ users[i].email = toLowerCase(email)}

\* BaseUser.findById: the sanitized user object, or NullUser (null).
findById(userId) ==
    IF Exists(userId) THEN _sanitizeUser(userObj(userId)) ELSE NullUser

\* The document storeOTP adds.
storeOTP(userId, otp, type, t) ==
    [userId |-> userId, otp |-> otp, type |-> type, createdAt |-> t,
     expiresAt |-> t + OtpTtl, used |-> FALSE]

\* verifyOTP's query, with two mutants: one that forgets the used filter,
\* one that forgets the type filter.
verifyOTP_query_anyUsed(userId, otp, type) ==
    {d \in DOMAIN otps : /\ otps[d].userId = userId
                         /\ otps[d].otp = otp
                         /\ otps[d].type = type}

verifyOTP_query_anyType(userId, otp, type) ==
    {d \in DOMAIN otps : /\ otps[d].userId = userId
                         /\ otps[d].otp = otp
                         /\ otps[d].used = FALSE}

verifyOTP_query(userId, otp, type) ==
    {d \in DOMAIN otps : /\ otps[d].userId = userId
                         /\ otps[d].otp = otp
                         /\ otps[d].type = type
                         /\ otps[d].used = FALSE}

\* verifyOTP's expiry test (expiresAt < new Date()), with the mutant that
\* never reports expiry.
verifyOTP_expired_never(otpData, t) == FALSE

verifyOTP_expired(otpData, t) == otpData.expiresAt < t

\* The document storeRefreshToken adds.
storeRefreshToken(id, userId, refreshToken, t) ==
    [id |-> id, userId |-> userId, token |-> refreshToken, createdAt |-> t,
     expiresAt |-> t + RefreshDocTtl]

\* The documents where('token','==',refreshToken) matches.
tokenDocsByToken(refreshToken) ==
    {d \in refreshTokens : d.token = refreshToken}

\* The documents where('userId','==',userId) matches.
tokenDocsByUser(userId) ==
    {d \in refreshTokens : d.userId = userId}

\* batch.delete of every snapshot document, then batch.commit; with the
\* mutant whose commit deletes nothing.
batchDelete_none(ids) == refreshTokens

batchDelete(ids) == {d \in refreshTokens : d.id \notin ids}

(***************************************************************************)
(* Requests.                                                               *)
(***************************************************************************)
Idle ==
    [kind |-> "idle", pc |-> "idle",
     \* request body / headers
     email |-> NoEmail, password |-> None, newPassword |-> None, userId |-> 0,
     fullName |-> None,
     otp |-> None, refreshToken |-> NoToken, accessToken |-> NoToken,
     \* the scheme of the Authorization header, the guard of the route and
     \* its allowed roles, the owner id in the path and in the body
     scheme |-> "Bearer", guard |-> "none", roles |-> <<>>,
     paramId |-> 0, bodyId |-> 0,
     \* req.user, the message of the response
     reqUser |-> NoIdentity, message |-> <<>>,
     \* locals of the handler: the resolved user's id, verifyOTP's document
     \* and result, a revoke query's snapshot, the generated tokens
     user |-> 0, otpDoc |-> 0, otpResult |-> None, snapshot |-> {},
     tokens |-> NoTokens,
     \* the response: the error the handler threw, the HTTP status
     error |-> None, status |-> 0,
     \* history of the request, read by the properties only
     dup |-> FALSE, replay |-> FALSE, peerSucceeded |-> FALSE,
     afterLogoutAll |-> FALSE, before |-> {}, late |-> FALSE,
     afterExpiry |-> FALSE, marked |-> FALSE,
     \* whether, when verifyOTP ran its query, a record of the user, the code
     \* and the type was unused and unexpired
     usable |-> FALSE,
     \* the user document as the handler read it, the calls of next(), the
     \* refresh-token documents the request stored, whether it set
     \* emailVerified
     seen |-> NullUser, nextCalls |-> 0, stored |-> 0, setVerified |-> FALSE,
     \* whether the store read failed, whether the guard called next()
     storeError |-> FALSE, admitted |-> FALSE,
     \* the otps document the request added (0: none)
     newOtp |-> 0,
     \* the refreshTokens documents the request's revoke deleted
     deleted |-> 0,
     \* whether the user was already verified when the request arrived
     wasVerified |-> FALSE,
     \* whether a refresh passed isRefreshTokenValid while no completed
     \* logout-all covered its token
     validBeforeRevoke |-> FALSE,
     \* req.body.role of a signup; req.body of PUT /profile and the fields
     \* the profile update is about to write
     role |-> None, body |-> NoProfileUpdates, updates |-> NoProfileUpdates,
     \* the new Date() read by storeOTP and storeRefreshToken before their
     \* awaited add()
     stamp |-> 0,
     \* the clock when the gate verified the access token (read by the
     \* properties only)
     enteredAt |-> 0,
     \* a task request: req.params.id, req.body (for assign, the userId),
     \* the update object Task.update is about to write, the documents
     \* Task.create / Task.bulkCreate are about to add, the ids still to be
     \* added to the event; an event request: req.body of PUT /api/events/:id
     \* and the update object Event.update is about to write
     taskId |-> 0, taskBody |-> NoUpdates, bulkBody |-> <<>>,
     taskUpdates |-> NoUpdates, newTasks |-> <<>>, newIds |-> <<>>,
     eventBody |-> NoEventUpdates, eventUpdates |-> NoEventUpdates,
     \* the event the request is about: req.params.eventId or req.params.id
     \* of an event route, task.eventId as a task handler read it
     eventId |-> 0,
     \* the step the handler of the route starts at, behind authenticate and
     \* the guard
     entry |-> "none",
     \* the one key of req.body, req.query or req.file the head of the
     \* handler tests besides the ones above (q, imageUrl, availability,
     \* category, rating, the uploaded file), None when it is absent
     value |-> None]

NoResp == [Idle EXCEPT !.kind = "none"]

\* A new request takes the lowest free slot (slots are interchangeable).
CanStart(p) ==
    /\ procs[p].kind = "idle"
    /\ \A q \in Procs : q < p => procs[q].kind # "idle"

InFlight(kinds) == Cardinality({q \in Procs : procs[q].kind \in kinds})

\* Room for the documents the requests in flight may still add.
UserRoom == Len(users) + InFlight({"signup"}) < MaxUsers
OtpRoom ==
    Len(otps) + InFlight({"signup", "resendOTP", "forgotPassword"}) < MaxOtps
TokenRoom ==
    tokenDocs + InFlight({"verifyEmail", "refreshToken", "login"}) < MaxTokenDocs

Continue(p, r) ==
    /\ procs' = [procs EXCEPT ![p] = r]
    /\ resp' = NoResp

\* What the arrival of a request leaves alone.
ArrivalUnchanged ==
    UNCHANGED <<users, otps, refreshTokens, tokenDocs, now, issued, exchanged,
                loggedOut, signedUp, validCount, tasks, events>>

Arrive(p, r) ==
    /\ CanStart(p)
    /\ Continue(p, r)
    /\ ArrivalUnchanged

Respond(p, r, status) ==
    /\ procs' = [procs EXCEPT ![p] = Idle]
    /\ resp' = [r EXCEPT !.pc = "done", !.status = status]

\* throw new <err>(...): asyncHandler hands it to the error translator.
Throw(p, r, err) == Respond(p, [r EXCEPT !.error = err], statusOf(err))

At(p, kinds, pc) == procs[p].kind \in kinds /\ procs[p].pc = pc

StoresUnchanged == UNCHANGED <<users, otps, refreshTokens, tokenDocs, validCount>>
ClockUnchanged == UNCHANGED now
TasksUnchanged == UNCHANGED <<tasks, events>>
HistUnchanged == UNCHANGED <<issued, exchanged, loggedOut, signedUp>>

(***************************************************************************)
(* Initial state: empty collections, no request in flight.                 *)
(***************************************************************************)
Init ==
    /\ users = <<>>
    /\ otps = <<>>
    /\ refreshTokens = {}
    /\ tokenDocs = 0
    /\ now = 0
    /\ tasks = <<>>
    /\ events = <<>>
    /\ procs = [p \in Procs |-> Idle]
    /\ resp = NoResp
    /\ issued = {}
    /\ exchanged = {}
    /\ loggedOut = {}
    /\ signedUp = {}
    /\ validCount = <<>>

\* The wall clock advances to a later instant.
Tick(t) ==
    /\ t > now
    /\ now' = t
    /\ resp' = NoResp
    /\ UNCHANGED procs
    /\ StoresUnchanged
    /\ HistUnchanged
    /\ TasksUnchanged

(***************************************************************************)
(* POST /signup                                                            *)
(***************************************************************************)
\* The handler is entered with req.body as given: any letter case of the
\* address reaches it (the route's validators are not part of the handler).
\* role is req.body.role, None when the body has none.
POST_signup(p, email, password, role) ==
    /\ UserRoom
    /\ OtpRoom
    /\ Arrive(p, [Idle EXCEPT !.kind = "signup", !.pc = "findByEmail",
                              !.email = email, !.password = password,
                              !.fullName = FullName1, !.role = role,
                              !.dup = toLowerCase(email) \in signedUp])

\* const existingUser = await BaseUser.findByEmail(email)
signup_findByEmail(p) ==
    /\ At(p, {"signup"}, "findByEmail")
    /\ IF findByEmail(procs[p].email) # {}
       THEN Throw(p, procs[p], "ConflictError")
       ELSE Continue(p, [procs[p] EXCEPT !.pc = "create"])
    /\ StoresUnchanged
    /\ ClockUnchanged
    /\ TasksUnchanged
    /\ HistUnchanged

\* const user = await Planner.create({email, role: ROLES.PLANNER, ...userData}):
\* a role in userData overwrites the literal's.  Planner.create awaits
\* super.create, whose add() of the user document lands here (after the
\* await of bcrypt.hash); baseUser is the object create returns.
signup_create(p) ==
    /\ At(p, {"signup"}, "create")
    /\ LET role == IF procs[p].role # None THEN procs[p].role ELSE ROLES.PLANNER
           user == Planner_create(procs[p].email, procs[p].password, role,
                                  procs[p].fullName)
       IN  /\ users' = Append(users, user)
           /\ Continue(p, [procs[p] EXCEPT
                              !.pc = "Planner_update", !.user = Len(users) + 1,
                              !.seen = [id |-> Len(users) + 1] @@ user])
    /\ UNCHANGED <<otps, refreshTokens, tokenDocs, validCount>>
    /\ ClockUnchanged
    /\ TasksUnchanged
    /\ HistUnchanged

\* Planner.create's second write, doc(baseUser.id).update(plannerSpecificData):
\* it changes none of the fields the model keeps and rejects when the
\* document is gone, which ends the signup with no OTP stored.  When it
\* resolves, signup draws the code and storeOTP reads the clock before it
\* awaits its add().
signup_Planner_update(p) ==
    /\ At(p, {"signup"}, "Planner_update")
    /\ IF Exists(procs[p].user)
       THEN Continue(p, [procs[p] EXCEPT !.pc = "storeOTP", !.stamp = now])
       ELSE Throw(p, procs[p], "Error")
    /\ StoresUnchanged
    /\ ClockUnchanged
    /\ TasksUnchanged
    /\ HistUnchanged

\* await storeOTP(user.id, otp): the add() lands, with the timestamps
\* storeOTP computed before the await.  (The code drawn by generateOTP is
\* chosen here: nothing reads it before the document exists.)
signup_storeOTP(p) ==
    /\ At(p, {"signup"}, "storeOTP")
    /\ \E otp \in Codes :
          otps' = Append(otps, storeOTP(procs[p].user, otp,
                                        "email_verification", procs[p].stamp))
    /\ validCount' = Append(validCount, 0)
    /\ Continue(p, [procs[p] EXCEPT !.pc = "sendOtpEmail",
                                    !.newOtp = Len(otps) + 1])
    /\ UNCHANGED <<users, refreshTokens, tokenDocs>>
    /\ ClockUnchanged
    /\ TasksUnchanged
    /\ HistUnchanged

\* await sendOtpEmail(user.email, otp, user.fullName); res.status(201)
signup_sendOtpEmail(p) ==
    /\ At(p, {"signup"}, "sendOtpEmail")
    /\ Respond(p, procs[p], 201)
    /\ signedUp' = signedUp \cup {toLowerCase(procs[p].email)}
    /\ UNCHANGED <<issued, exchanged, loggedOut>>
    /\ StoresUnchanged
    /\ ClockUnchanged
    /\ TasksUnchanged

\* sendOtpEmail, sendWelcomeEmail or sendPasswordResetEmail when
\* renderTemplate rejects (sendEmail swallows the provider's errors,
\* renderTemplate rethrows): the error leaves the handler, which has no
\* try/catch, and the translator answers; what the handler wrote stays.
renderTemplate_reject(p) ==
    /\ \/ At(p, {"signup", "resendOTP"}, "sendOtpEmail")
       \/ At(p, {"verifyEmail"}, "sendWelcomeEmail")
       \/ At(p, {"forgotPassword"}, "sendPasswordResetEmail")
    /\ Throw(p, procs[p], "Error")
    /\ StoresUnchanged
    /\ ClockUnchanged
    /\ TasksUnchanged
    /\ HistUnchanged

\* await storeOTP(user.id, otp) when the add() of the otps document rejects:
\* the error leaves signup, which has no try/catch, and the translator answers.
signup_storeOTP_reject(p) ==
    /\ At(p, {"signup"}, "storeOTP")
    /\ Throw(p, procs[p], "Error")
    /\ StoresUnchanged
    /\ ClockUnchanged
    /\ TasksUnchanged
    /\ HistUnchanged

(***************************************************************************)
(* verifyOTP(userId, otp, type), called by verify-email and reset-password *)
(***************************************************************************)
OtpType(kind) ==
    IF kind = "resetPassword" THEN "password_reset" ELSE "email_verification"

\* Every stored record of the triple has already been validated once.
AllValidated(userId, otp, type) ==
    LET all == {d \in DOMAIN otps : /\ otps[d].userId = userId
                                    /\ otps[d].otp = otp
                                    /\ otps[d].type = type}
    IN  all # {} /\ \A d \in all : validCount[d] >= 1

\* Some stored record of the triple is unused and unexpired at t.
Usable(userId, otp, type, t) ==
    \E d \in DOMAIN otps : /\ otps[d].userId = userId
                           /\ otps[d].otp = otp
                           /\ otps[d].type = type
                           /\ ~otps[d].used
                           /\ otps[d].expiresAt >= t

\* The query, snapshot.empty, the expiry test.
verifyOTP_check(p) ==
    /\ At(p, {"verifyEmail", "resetPassword"}, "verifyOTP")
    /\ LET r == [procs[p] EXCEPT
                   !.late = AllValidated(procs[p].user, procs[p].otp,
                                         OtpType(procs[p].kind)),
                   !.usable = Usable(procs[p].user, procs[p].otp,
                                     OtpType(procs[p].kind), now)]
           docs == verifyOTP_query(r.user, r.otp, OtpType(r.kind))
       IN  IF docs = {}
           THEN Throw(p, [r EXCEPT !.otpResult = "Invalid OTP code"], "ValidationError")
           ELSE \E d \in docs :
                  LET rd == [r EXCEPT !.otpDoc = d,
                                      !.afterExpiry = otps[d].expiresAt < now]
                  IN  IF verifyOTP_expired(otps[d], now)
                      THEN Throw(p, [rd EXCEPT !.otpResult = "OTP code has expired"], "ValidationError")
                      ELSE Continue(p, [rd EXCEPT !.pc = "verifyOTP_update"])
    /\ StoresUnchanged
    /\ ClockUnchanged
    /\ TasksUnchanged
    /\ HistUnchanged

\* await otpDoc.ref.update({ used: true }); return { valid: true }
verifyOTP_update(p) ==
    /\ At(p, {"verifyEmail", "resetPassword"}, "verifyOTP_update")
    /\ otps' = [otps EXCEPT ![procs[p].otpDoc].used = TRUE]
    /\ validCount' = [validCount EXCEPT ![procs[p].otpDoc] = @ + 1]
    /\ Continue(p, [procs[p] EXCEPT
                      !.otpResult = "valid", !.marked = TRUE,
                      !.pc = IF procs[p].kind = "verifyEmail"
                             THEN "update" ELSE "updatePassword"])
    /\ UNCHANGED <<users, refreshTokens, tokenDocs>>
    /\ ClockUnchanged
    /\ TasksUnchanged
    /\ HistUnchanged

(***************************************************************************)
(* POST /verify-email                                                      *)
(***************************************************************************)
POST_verifyEmail(p, userId, otp) ==
    /\ TokenRoom
    /\ Arrive(p, [Idle EXCEPT !.kind = "verifyEmail", !.pc = "verifyOTP",
                              !.userId = userId, !.otp = otp, !.user = userId,
                              !.wasVerified = /\ Exists(userId)
                                              /\ users[userId].emailVerified])

\* await BaseUser.update(userId, { emailVerified: true }): the write rejects
\* when the document is gone.
verifyEmail_update(p) ==
    /\ At(p, {"verifyEmail"}, "update")
    /\ IF Exists(procs[p].userId)
       THEN /\ users' = [users EXCEPT ![procs[p].userId].emailVerified = TRUE]
            /\ Continue(p, [procs[p] EXCEPT !.pc = "findById",
                                             !.setVerified = TRUE])
       ELSE /\ users' = users
            /\ Throw(p, procs[p], "Error")
    /\ UNCHANGED <<otps, refreshTokens, tokenDocs, validCount>>
    /\ ClockUnchanged
    /\ TasksUnchanged
    /\ HistUnchanged

\* const user = await BaseUser.findById(userId); the arguments of
\* sendWelcomeEmail(user.email, user.fullName) are a TypeError when user is
\* null.
verifyEmail_findById(p) ==
    /\ At(p, {"verifyEmail"}, "findById")
    /\ LET user == findById(procs[p].userId)
       IN  IF user = NullUser
           THEN Throw(p, procs[p], "TypeError")
           ELSE Continue(p, [procs[p] EXCEPT !.pc = "sendWelcomeEmail",
                                             !.seen = userObj(user.id)])
    /\ StoresUnchanged
    /\ ClockUnchanged
    /\ TasksUnchanged
    /\ HistUnchanged

\* await sendWelcomeEmail(...); const tokens = TokenManager.generateTokens(user)
\* with the user object read before the mail; storeRefreshToken reads the
\* clock before it awaits its add().
verifyEmail_sendWelcomeEmail(p) ==
    /\ At(p, {"verifyEmail"}, "sendWelcomeEmail")
    /\ Continue(p, [procs[p] EXCEPT
                      !.pc = "storeRefreshToken",
                      !.tokens = generateTokens(_sanitizeUser(procs[p].seen), now),
                      !.stamp = now])
    /\ StoresUnchanged
    /\ ClockUnchanged
    /\ TasksUnchanged
    /\ HistUnchanged

(***************************************************************************)
(* TokenManager.storeRefreshToken, the last await of verify-email, login   *)
(* and refresh: the add() lands, with the timestamps computed before the   *)
(* await; the handler then answers 200 with the token pair.                *)
(***************************************************************************)
storeRefreshToken_add(p) ==
    /\ At(p, {"verifyEmail", "login", "refreshToken"}, "storeRefreshToken")
    /\ refreshTokens' = refreshTokens \cup
          {storeRefreshToken(tokenDocs + 1, procs[p].tokens.refreshToken.userId,
                             procs[p].tokens.refreshToken, procs[p].stamp)}
    /\ tokenDocs' = tokenDocs + 1
    /\ issued' = issued \cup {procs[p].tokens.refreshToken}
    /\ exchanged' = IF procs[p].kind = "refreshToken"
                    THEN exchanged \cup {procs[p].refreshToken} ELSE exchanged
    /\ procs' = [q \in Procs |->
                   IF q = p THEN Idle
                   ELSE IF /\ procs[p].kind = "refreshToken"
                           /\ procs[q].kind = "refreshToken"
                           /\ procs[q].refreshToken = procs[p].refreshToken
                        THEN [procs[q] EXCEPT !.peerSucceeded = TRUE]
                        ELSE procs[q]]
    /\ resp' = [procs[p] EXCEPT !.pc = "done", !.status = 200,
                                !.stored = @ + 1]
    /\ UNCHANGED <<users, otps, validCount, loggedOut, signedUp>>
    /\ ClockUnchanged
    /\ TasksUnchanged

\* TokenManager.storeRefreshToken when the add() of the refreshTokens
\* document rejects: the error leaves the handler and the translator answers.
storeRefreshToken_reject(p) ==
    /\ At(p, {"verifyEmail", "login", "refreshToken"}, "storeRefreshToken")
    /\ Throw(p, procs[p], "Error")
    /\ StoresUnchanged
    /\ ClockUnchanged
    /\ TasksUnchanged
    /\ HistUnchanged

(***************************************************************************)
(* POST /resend-otp                                                        *)
(***************************************************************************)
POST_resendOTP(p, userId) ==
    /\ OtpRoom
    /\ Arrive(p, [Idle EXCEPT !.kind = "resendOTP", !.pc = "findById",
                              !.userId = userId])

\* if (user.emailVerified) throw new ValidationError(...), with the mutant
\* that never rejects.
resendOTP_rejects_never(user) == FALSE

resendOTP_rejects(user) == user.emailVerified

\* const user = await BaseUser.findById(userId); the checks; generateOTP;
\* storeOTP reads the clock before it awaits its add()
resendOTP_findById(p) ==
    /\ At(p, {"resendOTP"}, "findById")
    /\ LET user == findById(procs[p].userId)
           r == [procs[p] EXCEPT !.seen = IF user = NullUser THEN NullUser
                                          ELSE userObj(user.id)]
       IN  IF user = NullUser
           THEN Throw(p, r, "NotFoundError")
           ELSE IF resendOTP_rejects(user)
           THEN Throw(p, r, "ValidationError")
           ELSE Continue(p, [r EXCEPT !.pc = "storeOTP", !.user = user.id,
                                      !.stamp = now])
    /\ StoresUnchanged
    /\ ClockUnchanged
    /\ TasksUnchanged
    /\ HistUnchanged

\* await storeOTP(user.id, otp): the add() lands
resendOTP_storeOTP(p) ==
    /\ At(p, {"resendOTP"}, "storeOTP")
    /\ \E otp \in Codes :
          otps' = Append(otps, storeOTP(procs[p].user, otp,
                                        "email_verification", procs[p].stamp))
    /\ validCount' = Append(validCount, 0)
    /\ Continue(p, [procs[p] EXCEPT !.pc = "sendOtpEmail",
                                    !.newOtp = Len(otps) + 1])
    /\ UNCHANGED <<users, refreshTokens, tokenDocs>>
    /\ ClockUnchanged
    /\ TasksUnchanged
    /\ HistUnchanged

\* await sendOtpEmail(user.email, otp, user.fullName); res.status(200)
resendOTP_sendOtpEmail(p) ==
    /\ At(p, {"resendOTP"}, "sendOtpEmail")
    /\ Respond(p, procs[p], 200)
    /\ StoresUnchanged
    /\ ClockUnchanged
    /\ TasksUnchanged
    /\ HistUnchanged

(***************************************************************************)
(* POST /forgot-password                                                   *)
(***************************************************************************)
POST_forgotPassword(p, email) ==
    /\ OtpRoom
    /\ Arrive(p, [Idle EXCEPT !.kind = "forgotPassword", !.pc = "findByEmail",
                              !.email = email])

\* The status and the message of the two res.status(..).json(..) of
\* forgotPassword, by whether findByEmail found a user.
forgotPassword_json(found) ==
    IF found
    THEN [status |-> 200, message |-> <<"Password reset code sent to your email">>]
    ELSE [status |-> 200,
          message |-> <<"If an account exists with this email, a password reset code has been sent.">>]

\* const user = await BaseUser.findByEmail(email)
forgotPassword_findByEmail(p) ==
    /\ At(p, {"forgotPassword"}, "findByEmail")
    /\ IF findByEmail(procs[p].email) = {}
       THEN Respond(p, [procs[p] EXCEPT
                          !.message = forgotPassword_json(FALSE).message],
                    forgotPassword_json(FALSE).status)
       ELSE \E i \in findByEmail(procs[p].email) :
               Continue(p, [procs[p] EXCEPT !.pc = "storeOTP", !.user = i,
                                            !.seen = userObj(i),
                                            !.stamp = now])
    /\ StoresUnchanged
    /\ ClockUnchanged
    /\ TasksUnchanged
    /\ HistUnchanged

\* await storeOTP(user.id, resetCode, 'password_reset'): the add() lands
forgotPassword_storeOTP(p) ==
    /\ At(p, {"forgotPassword"}, "storeOTP")
    /\ \E otp \in Codes :
          otps' = Append(otps, storeOTP(procs[p].user, otp, "password_reset",
                                        procs[p].stamp))
    /\ validCount' = Append(validCount, 0)
    /\ Continue(p, [procs[p] EXCEPT !.pc = "sendPasswordResetEmail",
                                    !.newOtp = Len(otps) + 1])
    /\ UNCHANGED <<users, refreshTokens, tokenDocs>>
    /\ ClockUnchanged
    /\ TasksUnchanged
    /\ HistUnchanged

\* await sendPasswordResetEmail(user.email, resetCode); res.status(200)
forgotPassword_sendPasswordResetEmail(p) ==
    /\ At(p, {"forgotPassword"}, "sendPasswordResetEmail")
    /\ Respond(p, [procs[p] EXCEPT
                       !.message = forgotPassword_json(TRUE).message],
               forgotPassword_json(TRUE).status)
    /\ StoresUnchanged
    /\ ClockUnchanged
    /\ TasksUnchanged
    /\ HistUnchanged

(***************************************************************************)
(* POST /reset-password                                                    *)
(***************************************************************************)
POST_resetPassword(p, email, resetCode, newPassword) ==
    Arrive(p, [Idle EXCEPT !.kind = "resetPassword", !.pc = "findByEmail",
                           !.email = email, !.otp = resetCode,
                           !.newPassword = newPassword])

\* const user = await BaseUser.findByEmail(email)
resetPassword_findByEmail(p) ==
    /\ At(p, {"resetPassword"}, "findByEmail")
    /\ IF findByEmail(procs[p].email) = {}
       THEN Throw(p, procs[p], "NotFoundError")
       ELSE \E i \in findByEmail(procs[p].email) :
               Continue(p, [procs[p] EXCEPT !.pc = "verifyOTP", !.user = i])
    /\ StoresUnchanged
    /\ ClockUnchanged
    /\ TasksUnchanged
    /\ HistUnchanged

\* await BaseUser.updatePassword(id, newPassword), in reset-password and
\* change-password
updatePassword(p) ==
    /\ At(p, {"resetPassword", "changePassword"}, "updatePassword")
    /\ IF Exists(procs[p].user)
       THEN /\ users' = [users EXCEPT ![procs[p].user].password =
                                         bcryptHash(procs[p].newPassword)]
            /\ Continue(p, [procs[p] EXCEPT !.pc = "revokeAllUserTokens"])
       ELSE /\ users' = users
            /\ Throw(p, procs[p], "Error")
    /\ UNCHANGED <<otps, refreshTokens, tokenDocs, validCount>>
    /\ ClockUnchanged
    /\ TasksUnchanged
    /\ HistUnchanged

(***************************************************************************)
(* TokenManager.revokeAllUserTokens: the query, then the batch commit;     *)
(* reset-password, change-password and logout-all answer 200 after it.     *)
(***************************************************************************)
revokeAllUserTokens_query(p) ==
    /\ At(p, {"resetPassword", "changePassword", "logoutAll"},
          "revokeAllUserTokens")
    /\ Continue(p, [procs[p] EXCEPT
                      !.pc = "revokeAllUserTokens_commit",
                      !.snapshot = {d.id : d \in tokenDocsByUser(procs[p].user)}])
    /\ StoresUnchanged
    /\ ClockUnchanged
    /\ TasksUnchanged
    /\ HistUnchanged

revokeAllUserTokens_commit(p) ==
    /\ At(p, {"resetPassword", "changePassword", "logoutAll"},
          "revokeAllUserTokens_commit")
    /\ refreshTokens' = batchDelete(procs[p].snapshot)
    /\ Respond(p, procs[p], 200)
    /\ loggedOut' = IF procs[p].kind = "logoutAll"
                    THEN loggedOut \cup procs[p].before ELSE loggedOut
    /\ UNCHANGED <<users, otps, tokenDocs, validCount, issued, exchanged, signedUp>>
    /\ ClockUnchanged
    /\ TasksUnchanged

(***************************************************************************)
(* POST /refresh                                                           *)
(***************************************************************************)
\* The handler's synchronous head: const decoded =
\* TokenManager.verifyRefreshToken(refreshToken), which reads the clock and
\* throws before any await; a token that verifies goes on to
\* isRefreshTokenValid.
POST_refresh(p, refreshToken) ==
    /\ TokenRoom
    /\ CanStart(p)
    /\ LET r == [Idle EXCEPT !.kind = "refreshToken",
                             !.pc = "isRefreshTokenValid",
                             !.refreshToken = refreshToken,
                             !.enteredAt = now,
                             !.replay = refreshToken \in exchanged,
                             !.afterLogoutAll = refreshToken \in loggedOut]
       IN  IF verifyRefreshToken(refreshToken, now)
           THEN Continue(p, r)
           ELSE Throw(p, [r EXCEPT
                            !.message = <<verifyRefreshToken_error.message>>],
                      verifyRefreshToken_error.class)
    /\ ArrivalUnchanged

\* const isValid = await TokenManager.isRefreshTokenValid(refreshToken): the
\* query, snapshot.empty, and new Date(tokenDoc.expiresAt) > new Date() with
\* the clock as it is when the query has answered
refreshToken_isRefreshTokenValid(p) ==
    /\ At(p, {"refreshToken"}, "isRefreshTokenValid")
    /\ LET invalid == [procs[p] EXCEPT
                         !.message = <<"Invalid or expired refresh token">>]
       IN  IF tokenDocsByToken(procs[p].refreshToken) = {}
           THEN Throw(p, invalid, "AuthenticationError")
           ELSE \E tokenDoc \in tokenDocsByToken(procs[p].refreshToken) :
                   IF tokenDoc.expiresAt > now
                   THEN Continue(p, [procs[p] EXCEPT
                                       !.pc = "findById",
                                       !.user = procs[p].refreshToken.userId,
                                       !.validBeforeRevoke =
                                           procs[p].refreshToken \notin loggedOut])
                   ELSE Throw(p, invalid, "AuthenticationError")
    /\ StoresUnchanged
    /\ ClockUnchanged
    /\ TasksUnchanged
    /\ HistUnchanged

\* if (!user || !user.isActive), with the mutant that forgets isActive.
refreshToken_rejects_null(user) == user = NullUser

refreshToken_rejects(user) == user = NullUser \/ ~user.isActive

\* const user = await BaseUser.findById(decoded.userId);
\* const tokens = TokenManager.generateTokens(user)
refreshToken_findById(p) ==
    /\ At(p, {"refreshToken"}, "findById")
    /\ LET user == findById(procs[p].user)
           r == [procs[p] EXCEPT
                   !.seen = IF user = NullUser THEN NullUser
                            ELSE userObj(user.id)]
       IN  IF refreshToken_rejects(user)
           THEN Throw(p, [r EXCEPT !.message = <<"User not found or inactive">>],
                      "AuthenticationError")
           ELSE Continue(p, [r EXCEPT !.pc = "revokeRefreshToken",
                                      !.tokens = generateTokens(user, now)])
    /\ StoresUnchanged
    /\ ClockUnchanged
    /\ TasksUnchanged
    /\ HistUnchanged

(***************************************************************************)
(* TokenManager.revokeRefreshToken: the query, then the batch commit;      *)
(* refresh goes on to storeRefreshToken, which reads the clock before it   *)
(* awaits its add(), logout answers 200.                                   *)
(***************************************************************************)
revokeRefreshToken_query(p) ==
    /\ At(p, {"refreshToken", "logout"}, "revokeRefreshToken")
    /\ Continue(p, [procs[p] EXCEPT
                      !.pc = "revokeRefreshToken_commit",
                      !.snapshot =
                          {d.id : d \in tokenDocsByToken(procs[p].refreshToken)}])
    /\ StoresUnchanged
    /\ ClockUnchanged
    /\ TasksUnchanged
    /\ HistUnchanged

revokeRefreshToken_commit(p) ==
    /\ At(p, {"refreshToken", "logout"}, "revokeRefreshToken_commit")
    /\ refreshTokens' = batchDelete(procs[p].snapshot)
    /\ LET r == [procs[p] EXCEPT
                   !.deleted = Cardinality(refreshTokens \ batchDelete(procs[p].snapshot))]
       IN  IF procs[p].kind = "refreshToken"
           THEN Continue(p, [r EXCEPT !.pc = "storeRefreshToken", !.stamp = now])
           ELSE Respond(p, r, 200)
    /\ UNCHANGED <<users, otps, tokenDocs, validCount>>
    /\ ClockUnchanged
    /\ TasksUnchanged
    /\ HistUnchanged

(***************************************************************************)
(* The authenticate middleware in front of the protected routes.           *)
(***************************************************************************)
\* authHeader && authHeader.startsWith('Bearer '), with the mutant that takes
\* any scheme.
hasBearer_anyScheme(r) == r.accessToken # NoToken

hasBearer(r) == r.accessToken # NoToken /\ r.scheme = "Bearer"

\* The handlers of the vendor, event, task and dashboard routes and of GET
\* /me and PUT /profile-picture, each behind authenticate and, where the
\* router names one, a role guard; a request of these kinds keeps in entry
\* the step its handler starts at.
ApiKinds ==
    {"createTask", "bulkCreateTasks", "getEventTasks", "getTaskStatistics",
     "getMyTasks", "getTaskById", "updateTask", "deleteTask", "assignTask",
     "unassignTask", "updateTaskStatus", "markTaskCompleted",
     "createEvent", "getEvents", "getEventById", "updateEvent", "deleteEvent",
     "updateEventStatus", "getEventVendors", "addVendorToEvent",
     "addVendorByEmail", "removeVendorFromEvent", "updateVendorStatus",
     "getEventStatistics", "searchEvents",
     "getPlannerDashboard", "getVendorDashboard", "getVendorBookings",
     "updateVendorAvailability",
     "updateVendorProfile", "addPortfolioItem", "removePortfolioItem",
     "updateVerificationStatus", "updateRating",
     "getProfile", "uploadProfilePicture"}

\* The synchronous head of a handler, which runs in the turn of the next()
\* that reaches it: the tests of the request made before the first await.
\* searchEvents, the search of the vendors and the two portfolio routes
\* throw a ValidationError when q or imageUrl is missing, the verification
\* route when the status is none of the three, the rating route when the
\* rating or the review count is no number in range; the availability
\* route, the validators of PUT /api/vendors/profile and the upload of the
\* profile picture answer 400 themselves.
Categories ==
    {"catering", "photography", "videography", "venue", "decoration", "music",
     "entertainment", "planning", "other"}

headError(r) ==
    CASE r.kind \in {"searchEvents", "searchVendors", "addPortfolioItem",
                     "removePortfolioItem", "updateRating"}
            /\ r.value = None -> "ValidationError"
      [] r.kind = "updateVerificationStatus"
            /\ r.value \notin {"pending", "approved", "rejected"} -> "ValidationError"
      [] r.kind \in {"updateVendorAvailability", "uploadProfilePicture"}
            /\ r.value = None -> "400"
      [] r.kind = "updateVendorProfile"
            /\ r.value \notin Categories \cup {None} -> "400"
      [] OTHER -> None

\* The handler starts: its head answers, or it goes on to its first await
\* with the clock it read.
Start(p, r) ==
    IF headError(r) = None
    THEN Continue(p, [r EXCEPT !.pc = r.entry, !.stamp = now])
    ELSE IF headError(r) = "400"
    THEN Respond(p, r, 400)
    ELSE Throw(p, r, headError(r))

\* The identity attached to req.user, with the mutant that attaches the
\* user object as read.
identityOf_whole(user) == user

identityOf(user) ==
    [id |-> user.id, email |-> user.email, role |-> user.role,
     fullName |-> user.fullName]

\* The synchronous head of authenticate: the test of the header and
\* TokenManager.verifyAccessToken(token), which reads the clock, both before
\* the await of findById.  A request that fails either is answered 401 at
\* once.
authenticate_enter(p, r) ==
    /\ CanStart(p)
    /\ IF hasBearer(r) /\ verifyAccessToken(r.accessToken, now)
       THEN Continue(p, r)
       ELSE /\ procs' = procs
            /\ resp' = [r EXCEPT !.pc = "done", !.status = 401]
    /\ ArrivalUnchanged

\* const user = await BaseUser.findById(decoded.userId); the tests of the
\* user; req.user = {...}; next()
authenticate(p) ==
    /\ At(p, {"logout", "logoutAll", "changePassword", "updateProfile", "gate"}
                \cup ApiKinds, "authenticate")
    /\ LET r == procs[p]
           user == findById(r.accessToken.userId)
           rs == [r EXCEPT !.seen = IF user = NullUser THEN NullUser
                                    ELSE userObj(user.id)]
       IN  IF user = NullUser
           THEN Respond(p, rs, 401)
           ELSE IF ~user.isActive
           THEN Respond(p, rs, 403)
           ELSE IF r.kind = "logout" /\ r.refreshToken = NoToken
           THEN Respond(p, [rs EXCEPT !.user = user.id,
                                      !.reqUser = identityOf(user),
                                      !.nextCalls = @ + 1], 200)
           ELSE IF r.kind \in ApiKinds /\ r.guard = "none"
           THEN Start(p, [rs EXCEPT !.user = user.id,
                                    !.reqUser = identityOf(user),
                                    !.nextCalls = @ + 1])
           ELSE Continue(p, [rs EXCEPT
                    !.user = user.id,
                    !.reqUser = identityOf(user),
                    !.nextCalls = @ + 1,
                    !.pc = CASE r.kind = "logout" -> "revokeRefreshToken"
                             [] r.kind = "logoutAll" -> "revokeAllUserTokens"
                             [] r.kind = "gate" ->
                                   IF r.guard = "none" THEN "handler" ELSE "guard"
                             [] r.kind \in ApiKinds -> "guard"
                             [] OTHER -> "findById"])
    /\ StoresUnchanged
    /\ ClockUnchanged
    /\ TasksUnchanged
    /\ HistUnchanged

\* authenticate when findById rejects: the catch finds another message than
\* 'Invalid or expired token' and answers 500 'Authentication failed'.
authenticate_reject(p) ==
    /\ At(p, {"logout", "logoutAll", "changePassword", "updateProfile", "gate"}
                \cup ApiKinds, "authenticate")
    /\ Respond(p, [procs[p] EXCEPT !.storeError = TRUE,
                                   !.message = <<"Authentication failed">>], 500)
    /\ StoresUnchanged
    /\ ClockUnchanged
    /\ TasksUnchanged
    /\ HistUnchanged

\* optionalAuth's test of the user it read (user && user.isActive), with the
\* mutant that forgets isActive.
optionalAuth_admits_inactive(user) == user # NullUser

optionalAuth_admits(user) == user # NullUser /\ user.isActive

\* next() of optionalAuth: the guard of the route, if it has one, runs in the
\* same step of the event loop's turn that follows; the repository mounts
\* optionalAuth on no route, so behind the last middleware there is no
\* handler and the request leaves the model (pc "next", nothing sent).
HandOver(p, r) ==
    /\ procs' = [procs EXCEPT ![p] = Idle]
    /\ resp' = [r EXCEPT !.pc = "next", !.admitted = TRUE]

optionalAuth_next(p, r) ==
    IF r.guard = "none"
    THEN HandOver(p, [r EXCEPT !.nextCalls = @ + 1])
    ELSE Continue(p, [r EXCEPT !.nextCalls = @ + 1, !.pc = "guard"])

\* The synchronous head of optionalAuth: with no Bearer header, or a token
\* verifyAccessToken rejects, req.user = null and next() at once; otherwise
\* the request awaits findById.
optionalAuth_enter(p, r) ==
    /\ CanStart(p)
    /\ IF hasBearer(r) /\ verifyAccessToken(r.accessToken, now)
       THEN Continue(p, r)
       ELSE optionalAuth_next(p, [r EXCEPT !.reqUser = NoIdentity])
    /\ ArrivalUnchanged

\* optionalAuth: const user = await BaseUser.findById(decoded.userId); every
\* failure, a rejected store read included, ends in req.user = null and
\* next().
optionalAuth(p, storeError) ==
    /\ At(p, {"optional"}, "optionalAuth")
    /\ LET r == procs[p]
           user == findById(r.accessToken.userId)
           rs == [r EXCEPT !.storeError = storeError,
                           !.seen = IF user = NullUser THEN NullUser
                                    ELSE userObj(user.id)]
           null(q) == [q EXCEPT !.reqUser = NoIdentity]
       IN  IF storeError
           THEN optionalAuth_next(p, null([r EXCEPT !.storeError = TRUE]))
           ELSE IF optionalAuth_admits(user)
           THEN optionalAuth_next(p, [rs EXCEPT !.reqUser = identityOf(user)])
           ELSE optionalAuth_next(p, null(rs))
    /\ StoresUnchanged
    /\ ClockUnchanged
    /\ TasksUnchanged
    /\ HistUnchanged

(***************************************************************************)
(* The role and ownership checks behind the gate, then the route handler.  *)
(***************************************************************************)
\* next() of the last guard of a route: behind authenticate the handler
\* starts and awaits its read; behind optionalAuth the request leaves the
\* model.
guard_next(p, r) ==
    IF r.kind = "gate"
    THEN Continue(p, [r EXCEPT !.admitted = TRUE, !.pc = "handler"])
    ELSE IF r.kind \in ApiKinds
    THEN Start(p, [r EXCEPT !.admitted = TRUE])
    ELSE HandOver(p, r)

\* roles.join(' or ')
RECURSIVE join(_, _)
join(roles, sep) ==
    IF Len(roles) <= 1 THEN roles
    ELSE <<Head(roles), sep>> \o join(Tail(roles), sep)

\* roles.includes(userRole), with the mutant that admits every identity.
requireRole_includes_any(roles, userRole) == TRUE

requireRole_includes(roles, userRole) ==
    \E i \in DOMAIN roles : roles[i] = userRole

\* `Access denied. Required role: ${roles.join(' or ')}. Your role: ${userRole}`
requireRole_message(roles, userRole) ==
    <<"Access denied. Required role: ">> \o join(roles, " or ")
       \o <<". Your role: ", userRole>>

\* requireRole(...allowedRoles)(req, res, next)
requireRole(p) ==
    /\ At(p, {"gate", "optional"} \cup ApiKinds, "guard")
    /\ procs[p].guard = "requireRole"
    /\ LET r == procs[p]
           userRole == r.reqUser.role
       IN  IF r.reqUser = NoIdentity
           THEN Respond(p, [r EXCEPT !.message = <<"Authentication required">>], 401)
           ELSE IF ~requireRole_includes(r.roles, userRole)
           THEN Respond(p, [r EXCEPT !.message =
                                requireRole_message(r.roles, userRole)], 403)
           ELSE guard_next(p, r)
    /\ StoresUnchanged
    /\ ClockUnchanged
    /\ TasksUnchanged
    /\ HistUnchanged

\* currentUserId === requestedUserId || isAdmin, with the mutant that
\* forgets the administrators.
requireOwnerOrAdmin_admits_owner(reqUser, paramId, bodyId) ==
    reqUser.id = (IF paramId # 0 THEN paramId ELSE bodyId)

requireOwnerOrAdmin_admits(reqUser, paramId, bodyId) ==
    LET requestedUserId == IF paramId # 0 THEN paramId ELSE bodyId
        currentUserId == reqUser.id
        isAdmin == reqUser.role = ROLES.ADMIN
    IN  currentUserId = requestedUserId \/ isAdmin

\* requireOwnerOrAdmin(userIdParam)(req, res, next)
requireOwnerOrAdmin(p) ==
    /\ At(p, {"gate", "optional"}, "guard")
    /\ procs[p].guard = "requireOwnerOrAdmin"
    /\ LET r == procs[p]
       IN  IF r.reqUser = NoIdentity
           THEN Respond(p, [r EXCEPT !.message = <<"Authentication required">>], 401)
           ELSE IF requireOwnerOrAdmin_admits(r.reqUser, r.paramId, r.bodyId)
           THEN guard_next(p, r)
           ELSE Respond(p, [r EXCEPT !.message =
                   <<"Access denied. You can only access your own resources.">>],
                        403)
    /\ StoresUnchanged
    /\ ClockUnchanged
    /\ TasksUnchanged
    /\ HistUnchanged

\* Vendor.getProfileCompletion: const vendor = await super.findById(vendorId);
\* vendor.businessDescription of a null vendor is a TypeError.
Vendor_getProfileCompletion(vendorId) ==
    IF findById(vendorId) = NullUser THEN "throw" ELSE "completion"

\* The handler the model mounts behind the chain of every protected route,
\* that of GET /api/vendors/profile/completion: const completion = await
\* Vendor.getProfileCompletion(req.user.id); res.status(200)
handler(p) ==
    /\ At(p, {"gate"}, "handler")
    /\ IF Vendor_getProfileCompletion(procs[p].reqUser.id) = "throw"
       THEN Throw(p, [procs[p] EXCEPT !.admitted = TRUE], "TypeError")
       ELSE Respond(p, [procs[p] EXCEPT !.admitted = TRUE], 200)
    /\ StoresUnchanged
    /\ ClockUnchanged
    /\ TasksUnchanged
    /\ HistUnchanged

\* A request to a route behind authenticate, and one behind optionalAuth.
GET_protected(p, scheme, accessToken, guard, roles, paramId, bodyId) ==
    authenticate_enter(p,
        [Idle EXCEPT !.kind = "gate", !.pc = "authenticate",
                     !.scheme = scheme, !.accessToken = accessToken,
                     !.guard = guard, !.roles = roles,
                     !.paramId = paramId, !.bodyId = bodyId,
                     !.enteredAt = now])

GET_public(p, scheme, accessToken, guard, roles, paramId, bodyId) ==
    optionalAuth_enter(p,
        [Idle EXCEPT !.kind = "optional", !.pc = "optionalAuth",
                     !.scheme = scheme, !.accessToken = accessToken,
                     !.guard = guard, !.roles = roles,
                     !.paramId = paramId, !.bodyId = bodyId,
                     !.enteredAt = now])

(***************************************************************************)
(* Account administration: BaseUser.update(userId, {isActive}) and         *)
(* BaseUser.delete(userId).                                                *)
(***************************************************************************)
BaseUser_update(userId, isActive) ==
    /\ Exists(userId)
    /\ users[userId].isActive # isActive
    /\ users' = [users EXCEPT ![userId].isActive = isActive]
    /\ resp' = NoResp
    /\ UNCHANGED <<otps, refreshTokens, tokenDocs, validCount, procs>>
    /\ ClockUnchanged
    /\ TasksUnchanged
    /\ HistUnchanged

BaseUser_delete(userId) ==
    /\ Exists(userId)
    /\ users' = [users EXCEPT ![userId] = DeletedUser]
    /\ resp' = NoResp
    /\ UNCHANGED <<otps, refreshTokens, tokenDocs, validCount, procs>>
    /\ ClockUnchanged
    /\ TasksUnchanged
    /\ HistUnchanged

(***************************************************************************)
(* POST /logout, POST /logout-all                                          *)
(***************************************************************************)
POST_logout(p, accessToken, refreshToken) ==
    authenticate_enter(p,
        [Idle EXCEPT !.kind = "logout", !.pc = "authenticate",
                     !.accessToken = accessToken,
                     !.refreshToken = refreshToken])

POST_logoutAll(p, accessToken) ==
    authenticate_enter(p,
        [Idle EXCEPT !.kind = "logoutAll", !.pc = "authenticate",
                     !.accessToken = accessToken,
                     !.afterLogoutAll =
                         \E t \in loggedOut : AccessOf(t) = accessToken,
                     !.before = {t \in issued : t.userId = accessToken.userId}])

(***************************************************************************)
(* PUT /change-password                                                    *)
(***************************************************************************)
PUT_changePassword(p, accessToken, currentPassword, newPassword) ==
    authenticate_enter(p,
        [Idle EXCEPT !.kind = "changePassword", !.pc = "authenticate",
                     !.accessToken = accessToken,
                     !.afterLogoutAll =
                         \E t \in loggedOut : AccessOf(t) = accessToken,
                     !.password = currentPassword,
                     !.newPassword = newPassword])

\* const user = await BaseUser.findById(req.user.id);
\* const isValid = await BaseUser.verifyPassword(currentPassword, user.password)
\* (user.password of a null user is a TypeError; findById returns the
\* sanitized object, whose password is undefined, and bcrypt.compare rejects)
changePassword_findById(p) ==
    /\ At(p, {"changePassword"}, "findById")
    /\ LET user == findById(procs[p].user)
           isValid == verifyPassword(procs[p].password, user.password)
       IN  IF user = NullUser
           THEN Throw(p, procs[p], "TypeError")
           ELSE IF isValid = "throw"
           THEN Throw(p, procs[p], "Error")
           ELSE IF isValid = "mismatch"
           THEN Throw(p, procs[p], "AuthenticationError")
           ELSE Continue(p, [procs[p] EXCEPT !.pc = "updatePassword"])
    /\ StoresUnchanged
    /\ ClockUnchanged
    /\ TasksUnchanged
    /\ HistUnchanged

(***************************************************************************)
(* PUT /profile.  Of req.body the model keeps the keys role, password,     *)
(* fullName, email, isActive and emailVerified, each present or absent;    *)
(* the route has no validator.                                             *)
(***************************************************************************)
PUT_profile(p, accessToken, body) ==
    authenticate_enter(p,
        [Idle EXCEPT !.kind = "updateProfile", !.pc = "authenticate",
                     !.accessToken = accessToken, !.body = body])

\* Planner.updateProfile / Vendor.updateProfile: the keys of allowedFields
\* are copied, every other key is dropped.
Planner_updateProfile(updateData) ==
    [NoProfileUpdates EXCEPT !.fullName = updateData.fullName]

Vendor_updateProfile(updateData) ==
    [NoProfileUpdates EXCEPT !.fullName = updateData.fullName]

\* BaseUser.update: const { password, ...safeUpdateData } = updateData
safeUpdateData(updateData) == [updateData EXCEPT !.password = None]

\* userRef.update(updates): the keys present overwrite the document's; with
\* the mutant that removes the document.
userRef_update_delete(doc, updates) == DeletedUser

userRef_update(doc, updates) ==
    [doc EXCEPT
       !.role = IF updates.role # None THEN updates.role ELSE @,
       !.password = IF updates.password # None
                    THEN <<"plain", updates.password>> ELSE @,
       !.fullName = IF updates.fullName # None THEN updates.fullName ELSE @,
       !.email = IF updates.email # NoEmail THEN updates.email ELSE @,
       !.isActive = IF updates.isActive # Absent THEN updates.isActive[1] ELSE @,
       !.emailVerified = IF updates.emailVerified # Absent
                         THEN updates.emailVerified[1] ELSE @]

\* const user = await BaseUser.findById(req.user.id); the branch on user.role
updateProfile_findById(p) ==
    /\ At(p, {"updateProfile"}, "findById")
    /\ LET user == findById(procs[p].reqUser.id)
           body == procs[p].body
       IN  IF user = NullUser
           THEN Throw(p, procs[p], "NotFoundError")
           ELSE IF user.role = ROLES.VENDOR
           THEN Continue(p, [procs[p] EXCEPT
                               !.pc = "Vendor_findById",
                               !.updates = safeUpdateData(Vendor_updateProfile(body))])
           ELSE IF user.role = ROLES.PLANNER
           THEN Continue(p, [procs[p] EXCEPT
                               !.pc = "update",
                               !.updates = safeUpdateData(Planner_updateProfile(body))])
           ELSE Continue(p, [procs[p] EXCEPT
                               !.pc = "update",
                               !.updates = safeUpdateData(body)])
    /\ StoresUnchanged
    /\ ClockUnchanged
    /\ TasksUnchanged
    /\ HistUnchanged

\* Vendor.updateProfile: const vendor = await super.findById(vendorId), for
\* the completion percentage
Vendor_updateProfile_findById(p) ==
    /\ At(p, {"updateProfile", "updateVendorProfile", "updateVendorAvailability"},
          "Vendor_findById")
    /\ Continue(p, [procs[p] EXCEPT !.pc = "update"])
    /\ StoresUnchanged
    /\ ClockUnchanged
    /\ TasksUnchanged
    /\ HistUnchanged

\* The handlers that end in BaseUser.update, and the document it writes:
\* req.params.id for the two routes of the administrators, req.user.id for
\* the others.
UserWriters ==
    {"updateProfile", "updateVendorProfile", "updateVendorAvailability",
     "addPortfolioItem", "removePortfolioItem", "updateVerificationStatus",
     "updateRating", "uploadProfilePicture"}

userRef(r) ==
    IF r.kind \in {"updateVerificationStatus", "updateRating"}
    THEN r.paramId ELSE r.reqUser.id

\* BaseUser.update: await userRef.update(updates), which rejects when the
\* document is gone; uploadProfilePicture catches the rejection and answers
\* 500 'Upload failed' itself.
updateProfile_update(p) ==
    /\ At(p, UserWriters, "update")
    /\ IF Exists(userRef(procs[p]))
       THEN /\ users' = [users EXCEPT ![userRef(procs[p])] =
                                         userRef_update(@, procs[p].updates)]
            /\ Continue(p, [procs[p] EXCEPT !.pc = "get"])
       ELSE /\ users' = users
            /\ IF procs[p].kind = "uploadProfilePicture"
               THEN Respond(p, [procs[p] EXCEPT !.message = <<"Upload failed">>],
                            500)
               ELSE Throw(p, procs[p], "Error")
    /\ UNCHANGED <<otps, refreshTokens, tokenDocs, validCount>>
    /\ ClockUnchanged
    /\ TasksUnchanged
    /\ HistUnchanged

\* const updatedDoc = await userRef.get(); return this._sanitizeUser(...);
\* res.status(200)
updateProfile_get(p) ==
    /\ At(p, UserWriters, "get")
    /\ Respond(p, [procs[p] EXCEPT
                      !.seen = IF Exists(userRef(procs[p]))
                               THEN userObj(userRef(procs[p])) ELSE NullUser],
               200)
    /\ StoresUnchanged
    /\ ClockUnchanged
    /\ TasksUnchanged
    /\ HistUnchanged

(***************************************************************************)
(* POST /login                                                             *)
(***************************************************************************)
POST_login(p, email, password) ==
    /\ TokenRoom
    /\ Arrive(p, [Idle EXCEPT !.kind = "login", !.pc = "findByEmail",
                              !.email = email, !.password = password])

\* const user = await BaseUser.findByEmail(email); the tests of user and of
\* user.isActive
login_findByEmail(p) ==
    /\ At(p, {"login"}, "findByEmail")
    /\ IF findByEmail(procs[p].email) = {}
       THEN Throw(p, procs[p], "AuthenticationError")
       ELSE \E i \in findByEmail(procs[p].email) :
              LET user == _sanitizeUser(userObj(i))
                  r == [procs[p] EXCEPT !.seen = userObj(i), !.user = i]
              IN  IF ~user.isActive
                  THEN Throw(p, r, "AuthenticationError")
                  ELSE Continue(p, [r EXCEPT !.pc = "verifyPassword"])
    /\ StoresUnchanged
    /\ ClockUnchanged
    /\ TasksUnchanged
    /\ HistUnchanged

\* const isPasswordValid = await BaseUser.verifyPassword(password,
\* user.password) with the user object findByEmail returned; the test of
\* user.emailVerified; generateTokens; storeRefreshToken reads the clock
\* before it awaits its add().
login_verifyPassword(p) ==
    /\ At(p, {"login"}, "verifyPassword")
    /\ LET user == _sanitizeUser(procs[p].seen)
           isPasswordValid == verifyPassword(procs[p].password, user.password)
       IN  IF isPasswordValid = "throw"
           THEN Throw(p, procs[p], "Error")
           ELSE IF isPasswordValid = "mismatch"
           THEN Throw(p, procs[p], "AuthenticationError")
           ELSE IF ~user.emailVerified
           THEN Throw(p, procs[p], "AuthenticationError")
           ELSE Continue(p, [procs[p] EXCEPT
                               !.pc = "storeRefreshToken",
                               !.tokens = generateTokens(user, now),
                               !.stamp = now])
    /\ StoresUnchanged
    /\ ClockUnchanged
    /\ TasksUnchanged
    /\ HistUnchanged

(***************************************************************************)
(* The whole system is SpecAll, defined behind the last route: every       *)
(* route, from empty collections.  It is the reference behaviour; its      *)
(* state space is too large to enumerate, so the properties are checked    *)
(* under scenarios: the same actions, fewer routes, and an initial state   *)
(* the program reaches.  The inputs and the groups of steps come first.    *)
(***************************************************************************)
EmailA == <<97, 64, 120>>
Password1 == "Abcdefg1"
Password2 == "Zyxwvut9"
Code1 == "123456"

\* The tokens a client can present: the ones it was given, or a forged one.
RefreshInputs == issued \cup {ForgedToken}
AccessInputs == {AccessOf(t) : t \in issued} \cup {NoToken}

\* The bodies of PUT /profile: each key absent or present with one value.
ProfileBodies ==
    [role : {None, ROLES.VENDOR}, password : {None, "Zyxwvut9"},
     fullName : {None, "Eve Ojo"}, email : {NoEmail, <<101, 64, 120>>},
     isActive : {Absent, <<FALSE>>}, emailVerified : {Absent, <<TRUE>>}]

SignupSteps(p) ==
    \/ signup_findByEmail(p)
    \/ signup_create(p)
    \/ signup_Planner_update(p)
    \/ signup_storeOTP(p)
    \/ signup_sendOtpEmail(p)

ResendSteps(p) ==
    \/ resendOTP_findById(p)
    \/ resendOTP_storeOTP(p)
    \/ resendOTP_sendOtpEmail(p)

ForgotSteps(p) ==
    \/ forgotPassword_findByEmail(p)
    \/ forgotPassword_storeOTP(p)
    \/ forgotPassword_sendPasswordResetEmail(p)

OtpIssueSteps(p) ==
    \/ ResendSteps(p)
    \/ ForgotSteps(p)

VerifyEmailSteps(p) ==
    \/ verifyOTP_check(p)
    \/ verifyOTP_update(p)
    \/ verifyEmail_update(p)
    \/ verifyEmail_findById(p)
    \/ verifyEmail_sendWelcomeEmail(p)
    \/ storeRefreshToken_add(p)

LoginSteps(p) ==
    \/ login_findByEmail(p)
    \/ login_verifyPassword(p)

ProfileSteps(p) ==
    \/ updateProfile_findById(p)
    \/ Vendor_updateProfile_findById(p)
    \/ updateProfile_update(p)
    \/ updateProfile_get(p)

\* The awaited calls that may reject: the write of the OTP record at
\* signup, the rendering of a mail, the write of the refresh-token document,
\* the gate's read of the user.
FaultSteps(p) ==
    \/ signup_storeOTP_reject(p)
    \/ renderTemplate_reject(p)
    \/ storeRefreshToken_reject(p)
    \/ authenticate_reject(p)

ResetPasswordSteps(p) ==
    \/ resetPassword_findByEmail(p)
    \/ updatePassword(p)
    \/ revokeAllUserTokens_query(p)
    \/ revokeAllUserTokens_commit(p)

RefreshSteps(p) ==
    \/ refreshToken_isRefreshTokenValid(p)
    \/ refreshToken_findById(p)
    \/ revokeRefreshToken_query(p)
    \/ revokeRefreshToken_commit(p)

ProtectedSteps(p) ==
    \/ authenticate(p)
    \/ changePassword_findById(p)

(***************************************************************************)
(* Account creation, from empty collections: the requests of Spec are      *)
(* signups with any of the three addresses.                                *)
(***************************************************************************)
Next ==
    \/ \E p \in Procs, email \in Emails : POST_signup(p, email, Password1, None)
    \/ \E p \in Procs : signup_findByEmail(p)
    \/ \E p \in Procs : signup_create(p)
    \/ \E p \in Procs : signup_Planner_update(p)
    \/ \E p \in Procs : signup_storeOTP(p)
    \/ \E p \in Procs : signup_sendOtpEmail(p)

Spec == Init /\ [][Next]_vars

(***************************************************************************)
(* The OTP flows of one account.  InitOtp is the state Spec is in after    *)
(* POST /signup {email: "a@x", password: Password1} has answered 201 at    *)
(* time 0 with the code Code1.  The render of a mail template and the      *)
(* write of the refresh-token document may each fail.                      *)
(***************************************************************************)
InitOtp ==
    /\ users = <<Planner_create(EmailA, Password1, ROLES.PLANNER, FullName1)>>
    /\ otps = <<storeOTP(1, Code1, "email_verification", 0)>>
    /\ validCount = <<0>>
    /\ refreshTokens = {}
    /\ tokenDocs = 0
    /\ now = 0
    /\ tasks = <<>>
    /\ events = <<>>
    /\ procs = [p \in Procs |-> Idle]
    /\ resp = NoResp
    /\ issued = {}
    /\ exchanged = {}
    /\ loggedOut = {}
    /\ signedUp = {EmailA}

NextOtp ==
    \/ \E t \in OtpInstants : Tick(t)
    \/ \E p \in Procs, otp \in Codes : POST_verifyEmail(p, 1, otp)
    \/ \E p \in Procs : POST_resendOTP(p, 1)
    \/ \E p \in Procs : POST_forgotPassword(p, EmailA)
    \/ \E p \in Procs, otp \in Codes : POST_resetPassword(p, EmailA, otp, Password2)
    \/ \E p \in Procs : resendOTP_findById(p)
    \/ \E p \in Procs : resendOTP_storeOTP(p)
    \/ \E p \in Procs : resendOTP_sendOtpEmail(p)
    \/ \E p \in Procs : forgotPassword_findByEmail(p)
    \/ \E p \in Procs : forgotPassword_storeOTP(p)
    \/ \E p \in Procs : forgotPassword_sendPasswordResetEmail(p)
    \/ \E p \in Procs : verifyOTP_check(p)
    \/ \E p \in Procs : verifyOTP_update(p)
    \/ \E p \in Procs : verifyEmail_update(p)
    \/ \E p \in Procs : verifyEmail_findById(p)
    \/ \E p \in Procs : verifyEmail_sendWelcomeEmail(p)
    \/ \E p \in Procs : storeRefreshToken_add(p)
    \/ \E p \in Procs : resetPassword_findByEmail(p)
    \/ \E p \in Procs : updatePassword(p)
    \/ \E p \in Procs : revokeAllUserTokens_query(p)
    \/ \E p \in Procs : revokeAllUserTokens_commit(p)
    \/ \E p \in Procs : renderTemplate_reject(p)
    \/ \E p \in Procs : storeRefreshToken_reject(p)

SpecOtp == InitOtp /\ [][NextOtp]_vars

(***************************************************************************)
(* Sessions of one verified account.  InitSession is the state Spec is in  *)
(* after, all at time 0: POST /signup {"a@x", Password1} answered 201,     *)
(* POST /verify-email {1, Code1} answered 200 with the pair of token T0,   *)
(* and POST /forgot-password {"a@x"} answered 200 having stored Code1.     *)
(***************************************************************************)
User0 == [Planner_create(EmailA, Password1, ROLES.PLANNER, FullName1)
            EXCEPT !.emailVerified = TRUE]
T0 == generateTokens([id |-> 1] @@ User0, 0).refreshToken

InitSession ==
    /\ users = <<User0>>
    /\ otps = <<[storeOTP(1, Code1, "email_verification", 0) EXCEPT !.used = TRUE],
                storeOTP(1, Code1, "password_reset", 0)>>
    /\ validCount = <<1, 0>>
    /\ refreshTokens = {storeRefreshToken(1, 1, T0, 0)}
    /\ tokenDocs = 1
    /\ now = 0
    /\ tasks = <<>>
    /\ events = <<>>
    /\ procs = [p \in Procs |-> Idle]
    /\ resp = NoResp
    /\ issued = {T0}
    /\ exchanged = {}
    /\ loggedOut = {}
    /\ signedUp = {EmailA}

NextSession ==
    \/ \E t \in SessionInstants : Tick(t)
    \/ \E p \in Procs, rt \in RefreshInputs : POST_refresh(p, rt)
    \/ \E p \in Procs, at \in AccessInputs : POST_logoutAll(p, at)
    \/ \E p \in Procs, at \in AccessInputs, cur \in Passwords :
          PUT_changePassword(p, at, cur, Password2)
    \/ \E p \in Procs, otp \in Codes : POST_resetPassword(p, EmailA, otp, Password2)
    \/ \E p \in Procs : refreshToken_isRefreshTokenValid(p)
    \/ \E p \in Procs : refreshToken_findById(p)
    \/ \E p \in Procs : revokeRefreshToken_query(p)
    \/ \E p \in Procs : revokeRefreshToken_commit(p)
    \/ \E p \in Procs : storeRefreshToken_add(p)
    \/ \E p \in Procs : authenticate(p)
    \/ \E p \in Procs : changePassword_findById(p)
    \/ \E p \in Procs : resetPassword_findByEmail(p)
    \/ \E p \in Procs : verifyOTP_check(p)
    \/ \E p \in Procs : verifyOTP_update(p)
    \/ \E p \in Procs : updatePassword(p)
    \/ \E p \in Procs : revokeAllUserTokens_query(p)
    \/ \E p \in Procs : revokeAllUserTokens_commit(p)

SpecSession == InitSession /\ [][NextSession]_vars

(***************************************************************************)
(* Login and the other operations that open a session, for two accounts.   *)
(* InitLogin is the state Spec is in after, all at time 0: POST /signup    *)
(* {"a@x", Password1} and POST /verify-email {1, Code1} (token T0), then   *)
(* POST /signup {"b@x", Password1} with the code Code1, not yet verified.  *)
(***************************************************************************)
EmailB == <<98, 64, 120>>

InitLogin ==
    /\ users = <<User0, Planner_create(EmailB, Password1, ROLES.PLANNER, FullName1)>>
    /\ otps = <<[storeOTP(1, Code1, "email_verification", 0) EXCEPT !.used = TRUE],
                storeOTP(2, Code1, "email_verification", 0)>>
    /\ validCount = <<1, 0>>
    /\ refreshTokens = {storeRefreshToken(1, 1, T0, 0)}
    /\ tokenDocs = 1
    /\ now = 0
    /\ tasks = <<>>
    /\ events = <<>>
    /\ procs = [p \in Procs |-> Idle]
    /\ resp = NoResp
    /\ issued = {T0}
    /\ exchanged = {}
    /\ loggedOut = {}
    /\ signedUp = {EmailA, EmailB}

NextLogin ==
    \/ \E userId \in UserIds, isActive \in BOOLEAN : BaseUser_update(userId, isActive)
    \/ \E p \in Procs, email \in {EmailA, EmailB}, password \in Passwords :
          POST_login(p, email, password)
    \/ \E p \in Procs : POST_verifyEmail(p, 2, Code1)
    \/ \E p \in Procs : POST_refresh(p, T0)
    \/ \E p \in Procs : login_findByEmail(p)
    \/ \E p \in Procs : login_verifyPassword(p)
    \/ \E p \in Procs : verifyOTP_check(p)
    \/ \E p \in Procs : verifyOTP_update(p)
    \/ \E p \in Procs : verifyEmail_update(p)
    \/ \E p \in Procs : verifyEmail_findById(p)
    \/ \E p \in Procs : verifyEmail_sendWelcomeEmail(p)
    \/ \E p \in Procs : refreshToken_isRefreshTokenValid(p)
    \/ \E p \in Procs : refreshToken_findById(p)
    \/ \E p \in Procs : revokeRefreshToken_query(p)
    \/ \E p \in Procs : revokeRefreshToken_commit(p)
    \/ \E p \in Procs : storeRefreshToken_add(p)

SpecLogin == InitLogin /\ [][NextLogin]_vars

(***************************************************************************)
(* The gate.  InitGate holds a planner, a vendor and an administrator,     *)
(* seven days after the first access tokens were signed: the tokens of     *)
(* second 0 have just expired, those of second 1 are still valid and       *)
(* expire when the clock reaches the next second.  One request at a time   *)
(* passes the gate while accounts are deactivated, reactivated and         *)
(* deleted.                                                                *)
(***************************************************************************)
GateInstants == {AccessJwtTtlSec * 10 + 10}
GateUsers ==
    <<User0,
      [BaseUser_create(EmailB, Password1, ROLES.VENDOR, "Bisi Ade")
          EXCEPT !.emailVerified = TRUE],
      [BaseUser_create(<<99, 64, 120>>, Password1, ROLES.ADMIN, "Chi Eze")
          EXCEPT !.emailVerified = TRUE]>>

GateTokens ==
    {generateTokens([id |-> i] @@ GateUsers[i], 10).accessToken :
        i \in DOMAIN GateUsers}
       \cup {generateTokens([id |-> 1] @@ GateUsers[1], 0).accessToken,
             ForgedToken, NoToken}

GateRoutes ==
    {[guard |-> "none", roles |-> <<>>, paramId |-> 0, bodyId |-> 0]}
       \cup {[guard |-> "requireRole", roles |-> rs, paramId |-> 0, bodyId |-> 0] :
                rs \in {<<ROLES.PLANNER>>, <<ROLES.VENDOR>>, <<ROLES.ADMIN>>,
                        <<ROLES.PLANNER, ROLES.ADMIN>>}}
       \cup {[guard |-> "requireOwnerOrAdmin", roles |-> <<>>,
              paramId |-> a, bodyId |-> b] : a \in 0..2, b \in 0..1}

InitGate ==
    /\ users = GateUsers
    /\ otps = <<>>
    /\ validCount = <<>>
    /\ refreshTokens = {}
    /\ tokenDocs = 0
    /\ now = AccessJwtTtlSec * 10
    /\ tasks = <<>>
    /\ events = <<>>
    /\ procs = [p \in Procs |-> Idle]
    /\ resp = NoResp
    /\ issued = {}
    /\ exchanged = {}
    /\ loggedOut = {}
    /\ signedUp = {GateUsers[i].email : i \in DOMAIN GateUsers}

NextGate ==
    \/ \E t \in GateInstants : Tick(t)
    \/ \E userId \in DOMAIN GateUsers, isActive \in BOOLEAN :
          BaseUser_update(userId, isActive)
    \/ \E userId \in DOMAIN GateUsers : BaseUser_delete(userId)
    \/ \E scheme \in {"Bearer", "Basic"}, at \in GateTokens, g \in GateRoutes :
          GET_protected(1, scheme, at, g.guard, g.roles, g.paramId, g.bodyId)
    \/ \E scheme \in {"Bearer", "Basic"}, at \in GateTokens, g \in GateRoutes :
          GET_public(1, scheme, at, g.guard, g.roles, g.paramId, g.bodyId)
    \/ \E p \in Procs : authenticate(p)
    \/ \E p \in Procs : authenticate_reject(p)
    \/ \E p \in Procs, storeError \in BOOLEAN : optionalAuth(p, storeError)
    \/ \E p \in Procs : requireRole(p)
    \/ \E p \in Procs : requireOwnerOrAdmin(p)
    \/ \E p \in Procs : handler(p)

SpecGate == InitGate /\ [][NextGate]_vars

(***************************************************************************)
(* Resending the verification code.  InitOtp again (one unverified         *)
(* account, its first code stored); the requests are resend-otp for the    *)
(* account and for an id no document has, and the verify-email that makes  *)
(* the account verified, before, during or after a resend.                 *)
(***************************************************************************)
NextResend ==
    \/ \E t \in OtpInstants : Tick(t)
    \/ \E p \in Procs, userId \in UserIds : POST_resendOTP(p, userId)
    \/ \E p \in Procs : POST_verifyEmail(p, 1, Code1)
    \/ \E p \in Procs : resendOTP_findById(p)
    \/ \E p \in Procs : resendOTP_storeOTP(p)
    \/ \E p \in Procs : resendOTP_sendOtpEmail(p)
    \/ \E p \in Procs : verifyOTP_check(p)
    \/ \E p \in Procs : verifyOTP_update(p)
    \/ \E p \in Procs : verifyEmail_update(p)
    \/ \E p \in Procs : verifyEmail_findById(p)
    \/ \E p \in Procs : verifyEmail_sendWelcomeEmail(p)
    \/ \E p \in Procs : storeRefreshToken_add(p)

SpecResend == InitOtp /\ [][NextResend]_vars

(***************************************************************************)
(* Asking for a reset code, from empty collections: accounts are created  *)
(* by signup and may be deleted; the requests are forgot-password with     *)
(* "a@x", "A@X" and "b@x", whether or not the address has an account yet;  *)
(* the render of a mail template may fail.                                 *)
(***************************************************************************)
NextForgot ==
    \/ \E t \in OtpInstants : Tick(t)
    \/ \E userId \in UserIds : BaseUser_delete(userId)
    \/ \E p \in Procs, email \in {EmailA, EmailB} :
          POST_signup(p, email, Password1, None)
    \/ \E p \in Procs, email \in Emails : POST_forgotPassword(p, email)
    \/ \E p \in Procs : signup_findByEmail(p)
    \/ \E p \in Procs : signup_create(p)
    \/ \E p \in Procs : signup_Planner_update(p)
    \/ \E p \in Procs : signup_storeOTP(p)
    \/ \E p \in Procs : signup_sendOtpEmail(p)
    \/ \E p \in Procs : forgotPassword_findByEmail(p)
    \/ \E p \in Procs : forgotPassword_storeOTP(p)
    \/ \E p \in Procs : forgotPassword_sendPasswordResetEmail(p)
    \/ \E p \in Procs : renderTemplate_reject(p)

SpecForgot == Init /\ [][NextForgot]_vars

(***************************************************************************)
(* Logging out.  InitLogout holds two verified accounts one second after   *)
(* the first tokens were signed: "a@x" has two sessions (two verify-email  *)
(* requests that both passed the code check, one answered in second 0 and  *)
(* one in second 1), "b@x" has one.  The requests are logout and           *)
(* logout-all; nothing opens a session, so what a request finds gone       *)
(* stays gone.                                                             *)
(***************************************************************************)
UserB == [Planner_create(EmailB, Password1, ROLES.PLANNER, "Bisi Ade")
            EXCEPT !.emailVerified = TRUE]
T1 == generateTokens([id |-> 1] @@ User0, 10).refreshToken
TB == generateTokens([id |-> 2] @@ UserB, 0).refreshToken

InitLogout ==
    /\ users = <<User0, UserB>>
    /\ otps = <<[storeOTP(1, Code1, "email_verification", 0) EXCEPT !.used = TRUE],
                [storeOTP(2, Code1, "email_verification", 0) EXCEPT !.used = TRUE]>>
    /\ validCount = <<2, 1>>
    /\ refreshTokens = {storeRefreshToken(1, 1, T0, 0),
                        storeRefreshToken(2, 2, TB, 0),
                        storeRefreshToken(3, 1, T1, 10)}
    /\ tokenDocs = 3
    /\ now = 10
    /\ tasks = <<>>
    /\ events = <<>>
    /\ procs = [p \in Procs |-> Idle]
    /\ resp = NoResp
    /\ issued = {T0, T1, TB}
    /\ exchanged = {}
    /\ loggedOut = {}
    /\ signedUp = {EmailA, EmailB}

NextLogout ==
    \/ \E p \in Procs, at \in {AccessOf(T0), AccessOf(TB), NoToken},
          rt \in {T0, T1, TB, ForgedToken, NoToken} : POST_logout(p, at, rt)
    \/ \E p \in Procs, at \in {AccessOf(T0), AccessOf(TB), NoToken} :
          POST_logoutAll(p, at)
    \/ \E p \in Procs : authenticate(p)
    \/ \E p \in Procs : revokeRefreshToken_query(p)
    \/ \E p \in Procs : revokeRefreshToken_commit(p)
    \/ \E p \in Procs : revokeAllUserTokens_query(p)
    \/ \E p \in Procs : revokeAllUserTokens_commit(p)

SpecLogout == InitLogout /\ [][NextLogout]_vars

(***************************************************************************)
(* Profile updates.  InitProfile holds the planner, the vendor and the     *)
(* administrator of the gate scenario at time 0, each with the access      *)
(* token of its verification; the requests are PUT /profile with bodies    *)
(* that name a role, a password and a full name or leave them out, one     *)
(* request at a time.                                                      *)
(***************************************************************************)
ProfileTokens ==
    {generateTokens([id |-> i] @@ GateUsers[i], 0).accessToken :
        i \in DOMAIN GateUsers}

InitProfile ==
    /\ users = GateUsers
    /\ otps = <<>>
    /\ validCount = <<>>
    /\ refreshTokens = {}
    /\ tokenDocs = 0
    /\ now = 0
    /\ tasks = <<>>
    /\ events = <<>>
    /\ procs = [p \in Procs |-> Idle]
    /\ resp = NoResp
    /\ issued = {}
    /\ exchanged = {}
    /\ loggedOut = {}
    /\ signedUp = {GateUsers[i].email : i \in DOMAIN GateUsers}

NextProfile ==
    \/ \E at \in ProfileTokens, body \in ProfileBodies : PUT_profile(1, at, body)
    \/ \E p \in Procs : authenticate(p)
    \/ \E p \in Procs : updateProfile_findById(p)
    \/ \E p \in Procs : Vendor_updateProfile_findById(p)
    \/ \E p \in Procs : updateProfile_update(p)
    \/ \E p \in Procs : updateProfile_get(p)

SpecProfile == InitProfile /\ [][NextProfile]_vars

(***************************************************************************)
(* Refreshing.  InitLogin again: "a@x" is verified and has one session     *)
(* (token T0, signed and stored at time 0).  The clock reaches the next    *)
(* second and the instant, thirty days on, at which T0 and its record      *)
(* expire while a token signed in second 1 is still good; the account may  *)
(* be deactivated, reactivated and deleted; the requests present T0, a     *)
(* token issued since, or a forged one.                                    *)
(***************************************************************************)
RefreshInstants == {10, RefreshDocTtl}

NextRefresh ==
    \/ \E t \in RefreshInstants : Tick(t)
    \/ \E isActive \in BOOLEAN : BaseUser_update(1, isActive)
    \/ BaseUser_delete(1)
    \/ \E p \in Procs, rt \in RefreshInputs : POST_refresh(p, rt)
    \/ \E p \in Procs : refreshToken_isRefreshTokenValid(p)
    \/ \E p \in Procs : refreshToken_findById(p)
    \/ \E p \in Procs : revokeRefreshToken_query(p)
    \/ \E p \in Procs : revokeRefreshToken_commit(p)
    \/ \E p \in Procs : storeRefreshToken_add(p)

SpecRefresh == InitLogin /\ [][NextRefresh]_vars

(***************************************************************************)
(* The role of a new account, from empty collections: signups for "a@x"    *)
(* and "b@x" that name the role vendor, the role planner, or none.         *)
(***************************************************************************)
NextRole ==
    \/ \E p \in Procs, email \in {EmailA, EmailB},
          role \in {None, ROLES.PLANNER, ROLES.VENDOR} :
          POST_signup(p, email, Password1, role)
    \/ \E p \in Procs : signup_findByEmail(p)
    \/ \E p \in Procs : signup_create(p)
    \/ \E p \in Procs : signup_Planner_update(p)
    \/ \E p \in Procs : signup_storeOTP(p)
    \/ \E p \in Procs : signup_sendOtpEmail(p)

SpecRole == Init /\ [][NextRole]_vars

(***************************************************************************)
(* Every route of the auth controller, one request at a time, from empty   *)
(* collections: the sequences of operations of one or two accounts.  Every *)
(* account signup creates is a planner, so the vendor branch of the        *)
(* profile update is not among the steps.                                  *)
(***************************************************************************)
NextOps ==
    \/ \E email \in {EmailA, EmailB}, role \in {None, ROLES.VENDOR} :
          POST_signup(1, email, Password1, role)
    \/ POST_login(1, EmailA, Password1)
    \/ \E userId \in UserIds : POST_verifyEmail(1, userId, Code1)
    \/ \E userId \in UserIds : POST_resendOTP(1, userId)
    \/ POST_forgotPassword(1, EmailA)
    \/ POST_resetPassword(1, EmailA, Code1, Password2)
    \/ \E rt \in RefreshInputs : POST_refresh(1, rt)
    \/ \E at \in AccessInputs, rt \in issued \cup {NoToken} : POST_logout(1, at, rt)
    \/ \E at \in AccessInputs : POST_logoutAll(1, at)
    \/ \E at \in AccessInputs : PUT_changePassword(1, at, Password1, Password2)
    \/ \E at \in AccessInputs, role \in {None, ROLES.ADMIN} :
          PUT_profile(1, at, [NoProfileUpdates EXCEPT
                                !.role = role, !.password = Password2,
                                !.fullName = "Eve Ojo"])
    \/ \E p \in Procs :
          \/ SignupSteps(p)
          \/ OtpIssueSteps(p)
          \/ VerifyEmailSteps(p)
          \/ ResetPasswordSteps(p)
          \/ RefreshSteps(p)
          \/ ProtectedSteps(p)
          \/ LoginSteps(p)
          \/ updateProfile_findById(p)
          \/ updateProfile_update(p)
          \/ updateProfile_get(p)

SpecOps == Init /\ [][NextOps]_vars

(***************************************************************************)
(* Store faults: signup, verify-email and refresh, one request at a time,  *)
(* where the write of the OTP record and the write of the refresh-token    *)
(* document may each be rejected by the store.                             *)
(***************************************************************************)
NextFault ==
    \/ \E email \in {EmailA, EmailB} : POST_signup(1, email, Password1, None)
    \/ \E userId \in UserIds, otp \in Codes : POST_verifyEmail(1, userId, otp)
    \/ \E rt \in RefreshInputs : POST_refresh(1, rt)
    \/ \E p \in Procs :
          \/ SignupSteps(p)
          \/ signup_storeOTP_reject(p)
          \/ renderTemplate_reject(p)
          \/ VerifyEmailSteps(p)
          \/ RefreshSteps(p)
          \/ storeRefreshToken_reject(p)

SpecFault == Init /\ [][NextFault]_vars

(***************************************************************************)
(* Events and their tasks.  A task document keeps the fields eventId,      *)
(* plannerId, assignedTo (the userId of the assignee, 0 for null), status, *)
(* completed, completedAt (NullTime for null) and updatedAt; an event      *)
(* document keeps plannerId, vendors (its entries, each with its vendorId  *)
(* and status), tasks (the ids of its array), status, completed,           *)
(* completedAt and updatedAt; a request body and an update object keep the *)
(* same keys, each absent (<<>>) or present (<<value>>); the body of a     *)
(* create carries the title or the name and date the model does not keep.  *)
(* Ids of events and tasks are their positions in the collections.         *)
(***************************************************************************)
MaxTasks == 2
MaxEvents == 2
TaskInstants == {10}
ValidStatuses == {"pending", "in-progress", "completed", "cancelled"}

\* What is left of a task or an event document after delete(): get() finds
\* nothing.
DeletedTask ==
    [eventId |-> 0, plannerId |-> 0, assignedTo |-> 0, status |-> "none",
     completed |-> FALSE, completedAt |-> NullTime, updatedAt |-> 0]
DeletedEvent ==
    [plannerId |-> 0, vendors |-> {}, tasks |-> {}, status |-> "none",
     completed |-> FALSE, completedAt |-> NullTime, updatedAt |-> 0]

\* req.user of the task requests: the planner of the event and its vendor.
TaskCallers ==
    {[id |-> 1, email |-> <<97, 64, 120>>, role |-> "planner",
      fullName |-> "Ada Obi"],
     [id |-> 2, email |-> <<98, 64, 120>>, role |-> "vendor",
      fullName |-> "Bisi Ade"]}

\* The bodies of PUT /api/tasks/:id and of the entries of a bulk create.
TaskBodies ==
    [eventId : {Absent, <<2>>},
     plannerId : {Absent, <<2>>},
     assignedTo : {Absent},
     status : {Absent, <<"completed">>},
     completed : {Absent},
     completedAt : {Absent},
     updatedAt : {Absent}]

BulkBodies == {b \in TaskBodies : b.plannerId = Absent /\ b.eventId = Absent}

\* The bodies of PUT /api/events/:id: { tasks: [] } and { plannerId: '2' }.
EventBodies ==
    {[NoEventUpdates EXCEPT !.tasks = <<{}>>],
     [NoEventUpdates EXCEPT !.plannerId = <<2>>]}

\* createTask / bulkCreateTasks: { ...req.body, eventId: req.params.eventId,
\* plannerId: req.user.id }
taskData(body, eventId, reqUser) ==
    [body EXCEPT !.eventId = <<eventId>>, !.plannerId = <<reqUser.id>>]

\* Task.create: the document it builds before it awaits add(); status,
\* completed and completedAt are literals; a status, completed or
\* completedAt key of taskData is not destructured.
Task_create(data, t) ==
    [eventId |-> data.eventId[1],
     plannerId |-> data.plannerId[1],
     assignedTo |-> IF data.assignedTo = Absent THEN 0 ELSE data.assignedTo[1],
     status |-> "pending",
     completed |-> FALSE,
     completedAt |-> NullTime,
     updatedAt |-> t]

\* Task.bulkCreate, one entry: { ...taskData, status: taskData.status ||
\* 'pending', completed: false, ..., updatedAt, completedAt: null }.
Task_bulkCreate(data, t) ==
    [eventId |-> data.eventId[1],
     plannerId |-> data.plannerId[1],
     assignedTo |-> IF data.assignedTo = Absent THEN 0 ELSE data.assignedTo[1],
     status |-> IF data.status = Absent THEN "pending" ELSE data.status[1],
     completed |-> FALSE,
     completedAt |-> NullTime,
     updatedAt |-> t]

\* Task.update: const updates = { ...updateData, updatedAt: new Date() },
\* built before the awaited taskRef.update(updates).
Task_update(updateData, t) == [updateData EXCEPT !.updatedAt = <<t>>]

\* taskRef.update(updates): every key present overwrites the document's,
\* eventId and plannerId included; the others stay.
taskRef_update(doc, updates) ==
    [eventId |-> IF updates.eventId = Absent THEN doc.eventId
                 ELSE updates.eventId[1],
     plannerId |-> IF updates.plannerId = Absent THEN doc.plannerId
                   ELSE updates.plannerId[1],
     assignedTo |-> IF updates.assignedTo = Absent THEN doc.assignedTo
                    ELSE updates.assignedTo[1],
     status |-> IF updates.status = Absent THEN doc.status
                ELSE updates.status[1],
     completed |-> IF updates.completed = Absent THEN doc.completed
                   ELSE updates.completed[1],
     completedAt |-> IF updates.completedAt = Absent THEN doc.completedAt
                     ELSE updates.completedAt[1],
     updatedAt |-> IF updates.updatedAt = Absent THEN doc.updatedAt
                   ELSE updates.updatedAt[1]]

\* Task.updateStatus: the updates it hands to Task.update.
Task_updateStatus(status, t) ==
    IF status = "completed"
    THEN [NoUpdates EXCEPT !.status = <<status>>, !.completed = <<TRUE>>,
                           !.completedAt = <<t>>]
    ELSE [NoUpdates EXCEPT !.status = <<status>>, !.completed = <<FALSE>>,
                           !.completedAt = <<NullTime>>]

\* Task.markCompleted: updateStatus(taskId, 'completed')
Task_markCompleted(t) == Task_updateStatus("completed", t)

\* Task.assignTask / Task.unassignTask: update(taskId, { assignedTo })
Task_assignTask(assignedTo) == [NoUpdates EXCEPT !.assignedTo = <<assignedTo>>]
Task_unassignTask == [NoUpdates EXCEPT !.assignedTo = <<0>>]

AuthUnchanged ==
    UNCHANGED <<users, otps, refreshTokens, tokenDocs, validCount,
                issued, exchanged, loggedOut, signedUp>>

\* requirePlanner = requireRole(ROLES.PLANNER), and the two others
requirePlanner == <<ROLES.PLANNER>>
requireVendor == <<ROLES.VENDOR>>
requireAdmin == <<ROLES.ADMIN>>

\* The documents the creates in flight have still to add.
PendingTasks(q) ==
    IF /\ procs[q].kind \in {"createTask", "bulkCreateTasks"}
       /\ procs[q].pc \in {"authenticate", "guard", "Event_findById",
                           "Task_create"}
    THEN (IF procs[q].kind = "createTask" THEN 1 ELSE Len(procs[q].bulkBody))
    ELSE 0

TaskRoom(n) == Len(tasks) + PendingTasks(1) + PendingTasks(2) + n <= MaxTasks
EventRoom == Len(events) + InFlight({"createEvent"}) < MaxEvents

\* A request taken up where authenticate has attached req.user and called
\* next(): behind requireRole, a caller of another role is answered 403 at
\* once; for the others the handler starts.
TaskArrive(p, r) ==
    /\ CanStart(p)
    /\ IF r.guard = "requireRole" /\ ~requireRole_includes(r.roles, r.reqUser.role)
       THEN Respond(p, [r EXCEPT !.message = requireRole_message(
                                                r.roles, r.reqUser.role)], 403)
       ELSE Start(p, r)
    /\ ArrivalUnchanged

\* A request to a route behind authenticate; r names the guard of the route
\* and, as entry, the first await of its handler.  A caller that is an
\* access token enters at authenticate; a caller that is an identity is the
\* request as it stands when authenticate has attached that identity.
Enter(p, caller, r) ==
    IF "secret" \in DOMAIN caller
    THEN authenticate_enter(p, [r EXCEPT !.pc = "authenticate",
                                         !.accessToken = caller,
                                         !.enteredAt = now])
    ELSE TaskArrive(p, [r EXCEPT !.reqUser = caller])

Behind(roles, r) == [r EXCEPT !.guard = "requireRole", !.roles = roles]

\* POST /api/events/:eventId/tasks
POST_tasks(p, caller, eventId, body) ==
    /\ TaskRoom(1)
    /\ Enter(p, caller,
             Behind(requirePlanner,
                    [Idle EXCEPT !.kind = "createTask", !.entry = "Event_findById",
                                 !.eventId = eventId, !.taskBody = body]))

\* POST /api/events/:eventId/tasks/bulk
POST_tasks_bulk(p, caller, eventId, bodies) ==
    /\ TaskRoom(Len(bodies))
    /\ Enter(p, caller,
             Behind(requirePlanner,
                    [Idle EXCEPT !.kind = "bulkCreateTasks",
                                 !.entry = "Event_findById",
                                 !.eventId = eventId, !.bulkBody = bodies]))

\* PUT /api/tasks/:id
PUT_task(p, caller, id, body) ==
    Enter(p, caller,
          Behind(requirePlanner,
                 [Idle EXCEPT !.kind = "updateTask", !.entry = "findById",
                              !.taskId = id, !.taskBody = body]))

\* PUT /api/tasks/:id/assign with req.body.userId (and a name and an email)
PUT_task_assign(p, caller, id, userId) ==
    Enter(p, caller,
          Behind(requirePlanner,
                 [Idle EXCEPT !.kind = "assignTask", !.entry = "findById",
                              !.taskId = id, !.userId = userId]))

\* DELETE /api/tasks/:id/assign
DELETE_task_assign(p, caller, id) ==
    Enter(p, caller,
          Behind(requirePlanner,
                 [Idle EXCEPT !.kind = "unassignTask", !.entry = "findById",
                              !.taskId = id]))

\* PUT /api/tasks/:id/status with req.body.status
PUT_task_status(p, caller, id, status) ==
    Enter(p, caller,
          [Idle EXCEPT !.kind = "updateTaskStatus", !.entry = "findById",
                       !.taskId = id,
                       !.taskBody = [NoUpdates EXCEPT !.status = <<status>>]])

\* PUT /api/tasks/:id/complete
PUT_task_complete(p, caller, id) ==
    Enter(p, caller,
          [Idle EXCEPT !.kind = "markTaskCompleted", !.entry = "findById",
                       !.taskId = id])

\* DELETE /api/tasks/:id
DELETE_task(p, caller, id) ==
    Enter(p, caller,
          Behind(requirePlanner,
                 [Idle EXCEPT !.kind = "deleteTask", !.entry = "findById",
                              !.taskId = id]))

\* POST /api/events
POST_events(p, caller) ==
    /\ EventRoom
    /\ Enter(p, caller,
             Behind(requirePlanner,
                    [Idle EXCEPT !.kind = "createEvent", !.entry = "Event_create"]))

\* PUT /api/events/:id
PUT_event(p, caller, eventId, body) ==
    Enter(p, caller,
          Behind(requirePlanner,
                 [Idle EXCEPT !.kind = "updateEvent", !.entry = "Event_findById",
                              !.eventId = eventId, !.eventBody = body]))

\* DELETE /api/events/:id
DELETE_event(p, caller, eventId) ==
    Enter(p, caller,
          Behind(requirePlanner,
                 [Idle EXCEPT !.kind = "deleteEvent", !.entry = "Event_findById",
                              !.eventId = eventId]))

\* PUT /api/events/:id/status with req.body.status
PUT_event_status(p, caller, eventId, status) ==
    Enter(p, caller,
          Behind(requirePlanner,
                 [Idle EXCEPT !.kind = "updateEventStatus",
                              !.entry = "Event_findById", !.eventId = eventId,
                              !.eventBody = [NoEventUpdates EXCEPT
                                                !.status = <<status>>]]))

\* POST /api/events/:id/vendors with req.body.vendorId
POST_event_vendors(p, caller, eventId, vendorId) ==
    Enter(p, caller,
          Behind(requirePlanner,
                 [Idle EXCEPT !.kind = "addVendorToEvent",
                              !.entry = "Event_findById", !.eventId = eventId,
                              !.userId = vendorId]))

\* POST /api/events/:id/vendors/by-email with req.body.email
POST_event_vendors_by_email(p, caller, eventId, email) ==
    Enter(p, caller,
          Behind(requirePlanner,
                 [Idle EXCEPT !.kind = "addVendorByEmail",
                              !.entry = "Event_findById", !.eventId = eventId,
                              !.email = email]))

\* DELETE /api/events/:id/vendors/:vendorId
DELETE_event_vendor(p, caller, eventId, vendorId) ==
    Enter(p, caller,
          Behind(requirePlanner,
                 [Idle EXCEPT !.kind = "removeVendorFromEvent",
                              !.entry = "Event_findById", !.eventId = eventId,
                              !.userId = vendorId]))

\* PUT /api/events/:id/vendors/:vendorId/status with req.body.status; the
\* route has no role guard.
PUT_event_vendor_status(p, caller, eventId, vendorId, status) ==
    Enter(p, caller,
          [Idle EXCEPT !.kind = "updateVendorStatus", !.entry = "Event_findById",
                       !.eventId = eventId, !.userId = vendorId,
                       !.eventBody = [NoEventUpdates EXCEPT
                                         !.status = <<status>>]])

\* What a step of a task request that writes nothing leaves alone.
TaskRead ==
    /\ UNCHANGED <<tasks, events>>
    /\ AuthUnchanged
    /\ ClockUnchanged

\* Event.findById: null when the collection has no document of the id.
Event_findById(eventId) ==
    IF eventId \in DOMAIN events /\ events[eventId] # DeletedEvent
    THEN <<events[eventId]>> ELSE <<>>

\* Event.create: the document it builds from the destructured keys of
\* eventData before it awaits add(); vendors, tasks, status and completed
\* are literals.
Event_create(plannerId, t) ==
    [plannerId |-> plannerId, vendors |-> {}, tasks |-> {},
     status |-> "planning", completed |-> FALSE, completedAt |-> NullTime,
     updatedAt |-> t]

\* Event.update: const updates = { ...updateData, updatedAt: new Date() },
\* built before the awaited eventRef.update(updates).
Event_update(updateData, t) == [updateData EXCEPT !.updatedAt = <<t>>]

\* eventRef.update(updates): every key present overwrites the document's,
\* plannerId included; the others stay.
eventRef_update(doc, updates) ==
    [plannerId |-> IF updates.plannerId = Absent THEN doc.plannerId
                   ELSE updates.plannerId[1],
     vendors |-> IF updates.vendors = Absent THEN doc.vendors
                 ELSE updates.vendors[1],
     tasks |-> IF updates.tasks = Absent THEN doc.tasks ELSE updates.tasks[1],
     status |-> IF updates.status = Absent THEN doc.status
                ELSE updates.status[1],
     completed |-> IF updates.completed = Absent THEN doc.completed
                   ELSE updates.completed[1],
     completedAt |-> IF updates.completedAt = Absent THEN doc.completedAt
                     ELSE updates.completedAt[1],
     updatedAt |-> IF updates.updatedAt = Absent THEN doc.updatedAt
                   ELSE updates.updatedAt[1]]

\* Event.updateStatus: { status, completed, ...(completed && { completedAt }) }
Event_updateStatus(status, t) ==
    [NoEventUpdates EXCEPT
        !.status = <<status>>,
        !.completed = <<status = "completed">>,
        !.completedAt = IF status = "completed" THEN <<t>> ELSE Absent]

\* event.vendors.some(v => v.vendorId === vendorId)
hasVendor(event, vendorId) == \E v \in event.vendors : v.vendorId = vendorId

\* createEvent: eventData = { ...req.body, plannerId: req.user.id };
\* Event.create builds the document, reading the clock, when the handler
\* starts; its add() lands; res.status(201)
Event_create_add(p) ==
    /\ At(p, {"createEvent"}, "Event_create")
    /\ events' = Append(events, Event_create(procs[p].reqUser.id, procs[p].stamp))
    /\ Respond(p, [procs[p] EXCEPT !.eventId = Len(events) + 1], 201)
    /\ UNCHANGED tasks
    /\ AuthUnchanged
    /\ ClockUnchanged

\* The head of createTask, bulkCreateTasks, updateEvent, deleteEvent,
\* updateEventStatus, addVendorToEvent, addVendorByEmail and
\* removeVendorFromEvent: const event = await Event.findById(...); if
\* (!event) NotFoundError; if (event.plannerId !== req.user.id)
\* AuthorizationError; r is the request as it goes on.
EventChecked(p, r) ==
    LET event == Event_findById(procs[p].eventId)
    IN  IF event = <<>>
        THEN Throw(p, procs[p], "NotFoundError")
        ELSE IF event[1].plannerId # procs[p].reqUser.id
        THEN Throw(p, procs[p], "AuthorizationError")
        ELSE r

\* createTask: the read and the two tests; Task.create builds the document,
\* reading the clock, before it awaits add().
createTask_Event_findById(p) ==
    /\ At(p, {"createTask"}, "Event_findById")
    /\ EventChecked(p,
          Continue(p, [procs[p] EXCEPT
               !.pc = "Task_create",
               !.newTasks = <<Task_create(taskData(procs[p].taskBody,
                                                   procs[p].eventId,
                                                   procs[p].reqUser), now)>>]))
    /\ TaskRead

\* bulkCreateTasks: the read and the two tests, then the test of
\* req.body.tasks; Task.bulkCreate builds every document, reading the clock,
\* before it awaits batch.commit().
bulkCreateTasks_Event_findById(p) ==
    /\ At(p, {"bulkCreateTasks"}, "Event_findById")
    /\ LET r == procs[p]
       IN  EventChecked(p,
              IF r.bulkBody = <<>>
              THEN Throw(p, r, "ValidationError")
              ELSE Continue(p, [r EXCEPT
                      !.pc = "Task_create",
                      !.newTasks = [i \in DOMAIN r.bulkBody |->
                                      Task_bulkCreate(taskData(r.bulkBody[i],
                                                               r.eventId,
                                                               r.reqUser), now)]]))
    /\ TaskRead

\* The add() of Task.create or the batch.commit() of Task.bulkCreate lands;
\* the handler goes on to Event.addTask for the first new id.
Task_create_add(p) ==
    /\ At(p, {"createTask", "bulkCreateTasks"}, "Task_create")
    /\ tasks' = tasks \o procs[p].newTasks
    /\ Continue(p, [procs[p] EXCEPT
                      !.pc = "Event_addTask",
                      !.newIds = [i \in DOMAIN procs[p].newTasks |->
                                     Len(tasks) + i]])
    /\ UNCHANGED events
    /\ AuthUnchanged
    /\ ClockUnchanged

\* After Event.addTask of one id, whose result the controller does not
\* look at: the next id of a bulk create, or the 201.
addTask_done(p, r) ==
    IF Len(r.newIds) > 1
    THEN Continue(p, [r EXCEPT !.pc = "Event_addTask", !.newIds = Tail(@)])
    ELSE Respond(p, [r EXCEPT !.newIds = <<>>], 201)

\* Event.addTask: const event = await this.findById(eventId); if (!event)
\* return null; an id the array already includes is not written again;
\* otherwise the array as read, with the id pushed, goes to Event.update.
Event_addTask_findById(p) ==
    /\ At(p, {"createTask", "bulkCreateTasks"}, "Event_addTask")
    /\ LET r == procs[p]
           event == Event_findById(r.eventId)
       IN  IF event = <<>>
           THEN addTask_done(p, r)
           ELSE IF Head(r.newIds) \in event[1].tasks
           THEN addTask_done(p, r)
           ELSE Continue(p, [r EXCEPT
                   !.pc = "Event_update",
                   !.eventUpdates =
                       Event_update([NoEventUpdates EXCEPT !.tasks =
                           <<event[1].tasks \cup {Head(r.newIds)}>>], now)])
    /\ TaskRead

EventWriters ==
    {"createTask", "bulkCreateTasks", "deleteTask", "updateEvent",
     "updateEventStatus", "addVendorToEvent", "addVendorByEmail",
     "removeVendorFromEvent", "updateVendorStatus"}

\* Event.update: await eventRef.update(updates) lands on the document of
\* the id the caller passed, with the updates built before the await; it
\* rejects when the document is gone.
Event_update_write(p) ==
    /\ At(p, EventWriters, "Event_update")
    /\ IF Event_findById(procs[p].eventId) # <<>>
       THEN /\ events' = [events EXCEPT ![procs[p].eventId] =
                             eventRef_update(@, procs[p].eventUpdates)]
            /\ Continue(p, [procs[p] EXCEPT !.pc = "Event_update_get"])
       ELSE /\ events' = events
            /\ Throw(p, procs[p], "Error")
    /\ UNCHANGED tasks
    /\ AuthUnchanged
    /\ ClockUnchanged

\* Event.update: const updated = await eventRef.get(); the caller goes on:
\* a create to its next id or its 201, deleteTask to Task.delete, the event
\* handlers to their 200.
Event_update_get(p) ==
    /\ At(p, EventWriters, "Event_update_get")
    /\ IF procs[p].kind \in {"createTask", "bulkCreateTasks"}
       THEN addTask_done(p, procs[p])
       ELSE IF procs[p].kind = "deleteTask"
       THEN Continue(p, [procs[p] EXCEPT !.pc = "Task_delete"])
       ELSE Respond(p, procs[p], 200)
    /\ TaskRead

\* const task = await Task.findById(req.params.id): null when the
\* collection has no document of the id.
Task_findById(taskId) ==
    IF taskId \in DOMAIN tasks /\ tasks[taskId] # DeletedTask
    THEN <<tasks[taskId]>> ELSE <<>>

\* The handlers' tests of the task they read: the caller is its planner, or
\* its planner or its assignee.
isPlannerOf(task, reqUser) == task.plannerId = reqUser.id
isPlannerOrAssigned(task, reqUser) ==
    task.plannerId = reqUser.id \/ task.assignedTo = reqUser.id

\* The head of updateTask, deleteTask, assignTask and unassignTask
\* (ownerOnly) and of updateTaskStatus and markTaskCompleted: the read and
\* the two tests; r is the request as it goes on when both pass.
TaskChecked(p, ownerOnly, r) ==
    LET task == Task_findById(procs[p].taskId)
    IN  IF task = <<>>
        THEN Throw(p, procs[p], "NotFoundError")
        ELSE IF ownerOnly /\ ~isPlannerOf(task[1], procs[p].reqUser)
        THEN Throw(p, procs[p], "AuthorizationError")
        ELSE IF ~ownerOnly /\ ~isPlannerOrAssigned(task[1], procs[p].reqUser)
        THEN Throw(p, procs[p], "AuthorizationError")
        ELSE r

\* task.eventId of the task the handler read (0 when it read none).
eventIdOf(taskId) ==
    IF Task_findById(taskId) = <<>> THEN 0 ELSE Task_findById(taskId)[1].eventId

\* updateTask: the read and the test; Task.update(req.params.id, req.body)
\* builds its updates, reading the clock, before it awaits the write.
updateTask_findById(p) ==
    /\ At(p, {"updateTask"}, "findById")
    /\ TaskChecked(p, TRUE,
          Continue(p, [procs[p] EXCEPT
                         !.pc = "Task_update",
                         !.taskUpdates = Task_update(procs[p].taskBody, now)]))
    /\ TaskRead

\* assignTask: the read and the tests; then it awaits
\* Event.findById(task.eventId).
assignTask_findById(p) ==
    /\ At(p, {"assignTask"}, "findById")
    /\ TaskChecked(p, TRUE,
          IF procs[p].userId = 0
          THEN Throw(p, procs[p], "ValidationError")
          ELSE Continue(p, [procs[p] EXCEPT
                              !.pc = "Event_findById",
                              !.eventId = eventIdOf(procs[p].taskId)]))
    /\ TaskRead

\* assignTask: const event = await Event.findById(task.eventId);
\* event.vendors.some(v => v.vendorId === userId), a TypeError when the
\* event is gone; Task.assignTask builds its updates.
assignTask_Event_findById(p) ==
    /\ At(p, {"assignTask"}, "Event_findById")
    /\ LET event == Event_findById(procs[p].eventId)
       IN  IF event = <<>>
           THEN Throw(p, procs[p], "TypeError")
           ELSE IF ~hasVendor(event[1], procs[p].userId)
           THEN Throw(p, procs[p], "ValidationError")
           ELSE Continue(p, [procs[p] EXCEPT
                   !.pc = "Task_update",
                   !.taskUpdates =
                       Task_update(Task_assignTask(procs[p].userId), now)])
    /\ TaskRead

\* unassignTask: the read and the test; Task.unassignTask builds its updates.
unassignTask_findById(p) ==
    /\ At(p, {"unassignTask"}, "findById")
    /\ TaskChecked(p, TRUE,
          Continue(p, [procs[p] EXCEPT
                         !.pc = "Task_update",
                         !.taskUpdates = Task_update(Task_unassignTask, now)]))
    /\ TaskRead

\* updateTaskStatus: the read and the test; a status outside the four is a
\* ValidationError; Task.updateStatus builds its updates, reading the clock
\* for completedAt and for updatedAt.
updateTaskStatus_findById(p) ==
    /\ At(p, {"updateTaskStatus"}, "findById")
    /\ LET status == procs[p].taskBody.status[1]
       IN  TaskChecked(p, FALSE,
              IF status \notin ValidStatuses
              THEN Throw(p, procs[p], "ValidationError")
              ELSE Continue(p, [procs[p] EXCEPT
                      !.pc = "Task_update",
                      !.taskUpdates =
                          Task_update(Task_updateStatus(status, now), now)]))
    /\ TaskRead

\* markTaskCompleted: the read and the test; Task.markCompleted builds its
\* updates.
markTaskCompleted_findById(p) ==
    /\ At(p, {"markTaskCompleted"}, "findById")
    /\ TaskChecked(p, FALSE,
          Continue(p, [procs[p] EXCEPT
                         !.pc = "Task_update",
                         !.taskUpdates =
                             Task_update(Task_markCompleted(now), now)]))
    /\ TaskRead

TaskWriters ==
    {"updateTask", "assignTask", "unassignTask", "updateTaskStatus",
     "markTaskCompleted"}

\* Task.update: await taskRef.update(updates) lands, with the updates built
\* before the await; it rejects when the document is gone.
Task_update_write(p) ==
    /\ At(p, TaskWriters, "Task_update")
    /\ IF Task_findById(procs[p].taskId) # <<>>
       THEN /\ tasks' = [tasks EXCEPT ![procs[p].taskId] =
                                         taskRef_update(@, procs[p].taskUpdates)]
            /\ Continue(p, [procs[p] EXCEPT !.pc = "Task_update_get"])
       ELSE /\ tasks' = tasks
            /\ Throw(p, procs[p], "Error")
    /\ UNCHANGED events
    /\ AuthUnchanged
    /\ ClockUnchanged

\* Task.update: const updated = await taskRef.get(); res.status(200)
Task_update_get(p) ==
    /\ At(p, TaskWriters, "Task_update_get")
    /\ Respond(p, procs[p], 200)
    /\ TaskRead

\* deleteTask: the read and the two tests; then it awaits
\* Event.removeTask(task.eventId, req.params.id).
deleteTask_findById(p) ==
    /\ At(p, {"deleteTask"}, "findById")
    /\ TaskChecked(p, TRUE,
          Continue(p, [procs[p] EXCEPT
                         !.pc = "Event_removeTask",
                         !.eventId = eventIdOf(procs[p].taskId)]))
    /\ TaskRead

\* Event.removeTask: const event = await this.findById(eventId); if (!event)
\* return null; otherwise the array as read, without the id, goes to
\* Event.update.
Event_removeTask_findById(p) ==
    /\ At(p, {"deleteTask"}, "Event_removeTask")
    /\ LET event == Event_findById(procs[p].eventId)
       IN  IF event = <<>>
           THEN Continue(p, [procs[p] EXCEPT !.pc = "Task_delete"])
           ELSE Continue(p, [procs[p] EXCEPT
                   !.pc = "Event_update",
                   !.eventUpdates =
                       Event_update([NoEventUpdates EXCEPT !.tasks =
                           <<event[1].tasks \ {procs[p].taskId}>>], now)])
    /\ TaskRead

\* Task.delete: await ...doc(taskId).delete(); res.status(200)
Task_delete(p) ==
    /\ At(p, {"deleteTask"}, "Task_delete")
    /\ tasks' = [tasks EXCEPT ![procs[p].taskId] = DeletedTask]
    /\ Respond(p, procs[p], 200)
    /\ UNCHANGED events
    /\ AuthUnchanged
    /\ ClockUnchanged

\* updateEvent: the read and the two tests; Event.update(req.params.id,
\* req.body) builds its updates, reading the clock, before it awaits the
\* write.
updateEvent_findById(p) ==
    /\ At(p, {"updateEvent"}, "Event_findById")
    /\ EventChecked(p,
          Continue(p, [procs[p] EXCEPT
                         !.pc = "Event_update",
                         !.eventUpdates = Event_update(procs[p].eventBody, now)]))
    /\ TaskRead

\* updateEventStatus: the read and the two tests; a status outside the four
\* is a ValidationError; Event.updateStatus builds its updates, reading the
\* clock for completedAt, and Event.update its own.
updateEventStatus_findById(p) ==
    /\ At(p, {"updateEventStatus"}, "Event_findById")
    /\ LET status == procs[p].eventBody.status[1]
       IN  EventChecked(p,
              IF status \notin {"planning", "in-progress", "completed", "cancelled"}
              THEN Throw(p, procs[p], "ValidationError")
              ELSE Continue(p, [procs[p] EXCEPT
                      !.pc = "Event_update",
                      !.eventUpdates =
                          Event_update(Event_updateStatus(status, now), now)]))
    /\ TaskRead

\* deleteEvent: the read and the two tests; then it awaits
\* Task.deleteByEventId.
deleteEvent_findById(p) ==
    /\ At(p, {"deleteEvent"}, "Event_findById")
    /\ EventChecked(p,
          Continue(p, [procs[p] EXCEPT !.pc = "Task_deleteByEventId"]))
    /\ TaskRead

\* Task.getByEventId: the documents where('eventId', '==', eventId) matches.
Task_getByEventId(eventId) ==
    {i \in DOMAIN tasks : tasks[i] # DeletedTask /\ tasks[i].eventId = eventId}

\* Task.deleteByEventId: const tasks = await this.getByEventId(eventId)
Task_deleteByEventId_query(p) ==
    /\ At(p, {"deleteEvent"}, "Task_deleteByEventId")
    /\ Continue(p, [procs[p] EXCEPT
                      !.pc = "batch_commit",
                      !.snapshot = Task_getByEventId(procs[p].eventId)])
    /\ TaskRead

\* Task.deleteByEventId: batch.delete of every task of the snapshot, then
\* await batch.commit()
Task_deleteByEventId_commit(p) ==
    /\ At(p, {"deleteEvent"}, "batch_commit")
    /\ tasks' = [i \in DOMAIN tasks |->
                    IF i \in procs[p].snapshot THEN DeletedTask ELSE tasks[i]]
    /\ Continue(p, [procs[p] EXCEPT !.pc = "Event_delete"])
    /\ UNCHANGED events
    /\ AuthUnchanged
    /\ ClockUnchanged

\* Event.delete: await ...doc(eventId).delete(); res.status(200)
Event_delete(p) ==
    /\ At(p, {"deleteEvent"}, "Event_delete")
    /\ events' = [events EXCEPT ![procs[p].eventId] = DeletedEvent]
    /\ Respond(p, procs[p], 200)
    /\ UNCHANGED tasks
    /\ AuthUnchanged
    /\ ClockUnchanged

\* addVendorToEvent: the read and the two tests; the test of
\* req.body.vendorId; then it awaits Vendor.findById.
addVendorToEvent_findById(p) ==
    /\ At(p, {"addVendorToEvent"}, "Event_findById")
    /\ EventChecked(p,
          IF procs[p].userId = 0
          THEN Throw(p, procs[p], "ValidationError")
          ELSE Continue(p, [procs[p] EXCEPT !.pc = "Vendor_findById"]))
    /\ TaskRead

\* addVendorToEvent: const vendor = await Vendor.findById(vendorId); the
\* tests of the vendor; then it awaits Event.addVendor.
addVendorToEvent_Vendor_findById(p) ==
    /\ At(p, {"addVendorToEvent"}, "Vendor_findById")
    /\ LET vendor == findById(procs[p].userId)
       IN  IF vendor = NullUser
           THEN Throw(p, procs[p], "NotFoundError")
           ELSE IF vendor.role # "vendor"
           THEN Throw(p, procs[p], "ValidationError")
           ELSE Continue(p, [procs[p] EXCEPT !.pc = "Event_addVendor"])
    /\ TaskRead

\* addVendorByEmail: the read and the two tests; the test of req.body.email;
\* then it awaits BaseUser.findByEmail.
addVendorByEmail_findById(p) ==
    /\ At(p, {"addVendorByEmail"}, "Event_findById")
    /\ EventChecked(p,
          IF procs[p].email = NoEmail
          THEN Throw(p, procs[p], "ValidationError")
          ELSE Continue(p, [procs[p] EXCEPT !.pc = "findByEmail"]))
    /\ TaskRead

\* addVendorByEmail: const vendor = await BaseUser.findByEmail(email), one
\* of the documents the query matches; the tests of the vendor; vendorData
\* takes vendor.id; then it awaits Event.addVendor.
addVendorByEmail_findByEmail(p) ==
    /\ At(p, {"addVendorByEmail"}, "findByEmail")
    /\ IF findByEmail(procs[p].email) = {}
       THEN Throw(p, procs[p], "NotFoundError")
       ELSE \E i \in findByEmail(procs[p].email) :
               IF users[i].role # "vendor"
               THEN Throw(p, procs[p], "ValidationError")
               ELSE Continue(p, [procs[p] EXCEPT !.pc = "Event_addVendor",
                                                 !.userId = i])
    /\ TaskRead

\* Event.addVendor: const event = await this.findById(eventId); if (!event)
\* return null (the handler answers 200); a vendor the array already has is
\* an Error; otherwise the array as read, with the vendor pushed with the
\* status 'pending', goes to Event.update.
Event_addVendor_findById(p) ==
    /\ At(p, {"addVendorToEvent", "addVendorByEmail"}, "Event_addVendor")
    /\ LET event == Event_findById(procs[p].eventId)
           vendor == [vendorId |-> procs[p].userId, status |-> "pending"]
       IN  IF event = <<>>
           THEN Respond(p, procs[p], 200)
           ELSE IF hasVendor(event[1], procs[p].userId)
           THEN Throw(p, procs[p], "Error")
           ELSE Continue(p, [procs[p] EXCEPT
                   !.pc = "Event_update",
                   !.eventUpdates =
                       Event_update([NoEventUpdates EXCEPT !.vendors =
                           <<event[1].vendors \cup {vendor}>>], now)])
    /\ TaskRead

\* removeVendorFromEvent: the read and the two tests; then it awaits
\* Event.removeVendor.
removeVendorFromEvent_findById(p) ==
    /\ At(p, {"removeVendorFromEvent"}, "Event_findById")
    /\ EventChecked(p,
          Continue(p, [procs[p] EXCEPT !.pc = "Event_removeVendor"]))
    /\ TaskRead

\* Event.removeVendor: const event = await this.findById(eventId); if
\* (!event) return null (the handler answers 200); otherwise the array as
\* read, without the vendor, goes to Event.update.
Event_removeVendor_findById(p) ==
    /\ At(p, {"removeVendorFromEvent"}, "Event_removeVendor")
    /\ LET event == Event_findById(procs[p].eventId)
       IN  IF event = <<>>
           THEN Respond(p, procs[p], 200)
           ELSE Continue(p, [procs[p] EXCEPT
                   !.pc = "Event_update",
                   !.eventUpdates =
                       Event_update([NoEventUpdates EXCEPT !.vendors =
                           <<{v \in event[1].vendors :
                                 v.vendorId # procs[p].userId}>>], now)])
    /\ TaskRead

\* updateVendorStatus: the read and the test of the event; a status outside
\* the three is a ValidationError; a caller that is neither the planner of
\* the event nor the vendor of the path is refused; then it awaits
\* Event.updateVendorStatus.
updateVendorStatus_findById(p) ==
    /\ At(p, {"updateVendorStatus"}, "Event_findById")
    /\ LET r == procs[p]
           event == Event_findById(r.eventId)
           status == r.eventBody.status[1]
       IN  IF event = <<>>
           THEN Throw(p, r, "NotFoundError")
           ELSE IF status \notin {"pending", "confirmed", "declined"}
           THEN Throw(p, r, "ValidationError")
           ELSE LET isPlanner == event[1].plannerId = r.reqUser.id
                    isVendor == r.userId = r.reqUser.id
                IN  IF ~isPlanner /\ ~isVendor
                    THEN Throw(p, r, "AuthorizationError")
                    ELSE Continue(p, [r EXCEPT !.pc = "Event_updateVendorStatus"])
    /\ TaskRead

\* Event.updateVendorStatus: const event = await this.findById(eventId); if
\* (!event) return null (the handler answers 200); otherwise the array as
\* read, with the status of the entries of the vendor replaced, goes to
\* Event.update.
Event_updateVendorStatus_findById(p) ==
    /\ At(p, {"updateVendorStatus"}, "Event_updateVendorStatus")
    /\ LET r == procs[p]
           event == Event_findById(r.eventId)
       IN  IF event = <<>>
           THEN Respond(p, r, 200)
           ELSE Continue(p, [r EXCEPT
                   !.pc = "Event_update",
                   !.eventUpdates =
                       Event_update([NoEventUpdates EXCEPT !.vendors =
                           <<{IF v.vendorId = r.userId
                              THEN [v EXCEPT !.status = r.eventBody.status[1]]
                              ELSE v : v \in event[1].vendors}>>], now)])
    /\ TaskRead

TaskSteps(p) ==
    \/ createTask_Event_findById(p)
    \/ bulkCreateTasks_Event_findById(p)
    \/ Task_create_add(p)
    \/ Event_addTask_findById(p)
    \/ Event_update_write(p)
    \/ Event_update_get(p)
    \/ updateTask_findById(p)
    \/ assignTask_findById(p)
    \/ assignTask_Event_findById(p)
    \/ unassignTask_findById(p)
    \/ updateTaskStatus_findById(p)
    \/ markTaskCompleted_findById(p)
    \/ Task_update_write(p)
    \/ Task_update_get(p)
    \/ deleteTask_findById(p)
    \/ Event_removeTask_findById(p)
    \/ Task_delete(p)

EventSteps(p) ==
    \/ Event_create_add(p)
    \/ updateEvent_findById(p)
    \/ updateEventStatus_findById(p)
    \/ deleteEvent_findById(p)
    \/ Task_deleteByEventId_query(p)
    \/ Task_deleteByEventId_commit(p)
    \/ Event_delete(p)
    \/ addVendorToEvent_findById(p)
    \/ addVendorToEvent_Vendor_findById(p)
    \/ addVendorByEmail_findById(p)
    \/ addVendorByEmail_findByEmail(p)
    \/ Event_addVendor_findById(p)
    \/ removeVendorFromEvent_findById(p)
    \/ Event_removeVendor_findById(p)
    \/ updateVendorStatus_findById(p)
    \/ Event_updateVendorStatus_findById(p)

(***************************************************************************)
(* The handlers of the events and tasks that only read.  The list a        *)
(* response carries is kept in snapshot as the ids of its documents; the   *)
(* filters of the query string are absent.                                 *)
(***************************************************************************)
\* Task.getByPlannerId, Task.getByAssignedUser, Event.getByPlannerId: the
\* documents the where() of each matches.
Task_getByPlannerId(plannerId) ==
    {i \in DOMAIN tasks : tasks[i] # DeletedTask /\ tasks[i].plannerId = plannerId}

Task_getByAssignedUser(userId) ==
    {i \in DOMAIN tasks : tasks[i] # DeletedTask /\ tasks[i].assignedTo = userId}

Event_getByPlannerId(plannerId) ==
    {i \in DOMAIN events :
        events[i] # DeletedEvent /\ events[i].plannerId = plannerId}

\* Event.getByVendorId: where('vendors', 'array-contains-any', [{ vendorId }])
\* matches the events with an entry equal to the object { vendorId }; the
\* entries Event.addVendor pushes have more keys.
Event_getByVendorId(vendorId) ==
    {i \in DOMAIN events :
        /\ events[i] # DeletedEvent
        /\ \E v \in events[i].vendors : DOMAIN v = {"vendorId"} /\ v.vendorId = vendorId}

\* GET /api/events/:eventId/tasks
GET_tasks(p, caller, eventId) ==
    Enter(p, caller,
          [Idle EXCEPT !.kind = "getEventTasks", !.entry = "Event_findById",
                       !.eventId = eventId])

\* GET /api/events/:eventId/tasks/statistics
GET_tasks_statistics(p, caller, eventId) ==
    Enter(p, caller,
          Behind(requirePlanner,
                 [Idle EXCEPT !.kind = "getTaskStatistics",
                              !.entry = "Event_findById", !.eventId = eventId]))

\* GET /api/tasks/my-tasks
GET_my_tasks(p, caller) ==
    Enter(p, caller,
          [Idle EXCEPT !.kind = "getMyTasks", !.entry = "Task_getByAssignedUser"])

\* GET /api/tasks/:id
GET_task(p, caller, id) ==
    Enter(p, caller,
          [Idle EXCEPT !.kind = "getTaskById", !.entry = "findById",
                       !.taskId = id])

\* GET /api/events
GET_events(p, caller) ==
    Enter(p, caller,
          Behind(requirePlanner,
                 [Idle EXCEPT !.kind = "getEvents",
                              !.entry = "Event_getByPlannerId"]))

\* GET /api/events/statistics
GET_events_statistics(p, caller) ==
    Enter(p, caller,
          Behind(requirePlanner,
                 [Idle EXCEPT !.kind = "getEventStatistics",
                              !.entry = "Event_getByPlannerId"]))

\* GET /api/events/search with req.query.q
GET_events_search(p, caller, q) ==
    Enter(p, caller,
          Behind(requirePlanner,
                 [Idle EXCEPT !.kind = "searchEvents",
                              !.entry = "Event_getByPlannerId", !.value = q]))

\* GET /api/events/:id; the route has no role guard.
GET_event(p, caller, eventId) ==
    Enter(p, caller,
          [Idle EXCEPT !.kind = "getEventById", !.entry = "Event_findById",
                       !.eventId = eventId])

\* GET /api/events/:id/vendors; the route has no role guard.
GET_event_vendors(p, caller, eventId) ==
    Enter(p, caller,
          [Idle EXCEPT !.kind = "getEventVendors", !.entry = "Event_findById",
                       !.eventId = eventId])

\* getEventTasks: the read of the event; the caller is its planner or one
\* of its vendors; then it awaits Task.getByEventId.
getEventTasks_findById(p) ==
    /\ At(p, {"getEventTasks"}, "Event_findById")
    /\ LET r == procs[p]
           event == Event_findById(r.eventId)
       IN  IF event = <<>>
           THEN Throw(p, r, "NotFoundError")
           ELSE LET isPlanner == event[1].plannerId = r.reqUser.id
                    isAssignedVendor == hasVendor(event[1], r.reqUser.id)
                IN  IF ~isPlanner /\ ~isAssignedVendor
                    THEN Throw(p, r, "AuthorizationError")
                    ELSE Continue(p, [r EXCEPT !.pc = "Task_getByEventId"])
    /\ TaskRead

\* getTaskStatistics: the read and the two tests; then it awaits
\* Task.getEventStatistics, which awaits Task.getByEventId.
getTaskStatistics_findById(p) ==
    /\ At(p, {"getTaskStatistics"}, "Event_findById")
    /\ EventChecked(p, Continue(p, [procs[p] EXCEPT !.pc = "Task_getByEventId"]))
    /\ TaskRead

\* const tasks = await Task.getByEventId(req.params.eventId); res.status(200)
Task_getByEventId_get(p) ==
    /\ At(p, {"getEventTasks", "getTaskStatistics"}, "Task_getByEventId")
    /\ Respond(p, [procs[p] EXCEPT
                      !.snapshot = Task_getByEventId(procs[p].eventId)], 200)
    /\ TaskRead

\* getMyTasks: const tasks = await Task.getByAssignedUser(req.user.id);
\* res.status(200)
getMyTasks_get(p) ==
    /\ At(p, {"getMyTasks"}, "Task_getByAssignedUser")
    /\ Respond(p, [procs[p] EXCEPT
                      !.snapshot = Task_getByAssignedUser(procs[p].reqUser.id)],
               200)
    /\ TaskRead

\* getTaskById: the read; the caller is the planner of the task or its
\* assignee; res.status(200)
getTaskById_findById(p) ==
    /\ At(p, {"getTaskById"}, "findById")
    /\ TaskChecked(p, FALSE, Respond(p, procs[p], 200))
    /\ TaskRead

\* getEvents, getEventStatistics (Event.getStatistics) and searchEvents
\* (Event.search): await Event.getByPlannerId(req.user.id); res.status(200).
\* The filter of a search on the names is not kept.
Event_getByPlannerId_get(p) ==
    /\ At(p, {"getEvents", "getEventStatistics", "searchEvents"},
          "Event_getByPlannerId")
    /\ Respond(p, [procs[p] EXCEPT
                      !.snapshot = IF procs[p].kind = "searchEvents" THEN {}
                                   ELSE Event_getByPlannerId(procs[p].reqUser.id)],
               200)
    /\ TaskRead

\* getEventById and getEventVendors: the read and the two tests;
\* res.status(200)
getEventById_findById(p) ==
    /\ At(p, {"getEventById", "getEventVendors"}, "Event_findById")
    /\ EventChecked(p, Respond(p, procs[p], 200))
    /\ TaskRead

ReadSteps(p) ==
    \/ getEventTasks_findById(p)
    \/ getTaskStatistics_findById(p)
    \/ Task_getByEventId_get(p)
    \/ getMyTasks_get(p)
    \/ getTaskById_findById(p)
    \/ Event_getByPlannerId_get(p)
    \/ getEventById_findById(p)

(***************************************************************************)
(* The dashboards.                                                         *)
(***************************************************************************)
\* GET /api/dashboard/planner
GET_dashboard_planner(p, caller) ==
    Enter(p, caller,
          Behind(requirePlanner,
                 [Idle EXCEPT !.kind = "getPlannerDashboard",
                              !.entry = "Event_getByPlannerId"]))

\* GET /api/dashboard/vendor
GET_dashboard_vendor(p, caller) ==
    Enter(p, caller,
          Behind(requireVendor,
                 [Idle EXCEPT !.kind = "getVendorDashboard",
                              !.entry = "Event_getByVendorId"]))

\* GET /api/dashboard/vendor/bookings
GET_dashboard_vendor_bookings(p, caller) ==
    Enter(p, caller,
          Behind(requireVendor,
                 [Idle EXCEPT !.kind = "getVendorBookings",
                              !.entry = "Event_getByVendorId"]))

\* PUT /api/dashboard/vendor/availability with req.body.availability, None
\* when it is no boolean
PUT_dashboard_vendor_availability(p, caller, availability) ==
    Enter(p, caller,
          Behind(requireVendor,
                 [Idle EXCEPT !.kind = "updateVendorAvailability",
                              !.entry = "Vendor_findById",
                              !.value = availability]))

\* getPlannerDashboard: const allEvents = await Event.getByPlannerId(...);
\* then it awaits Task.getByPlannerId.
getPlannerDashboard_events(p) ==
    /\ At(p, {"getPlannerDashboard"}, "Event_getByPlannerId")
    /\ Continue(p, [procs[p] EXCEPT
                      !.pc = "Task_getByPlannerId",
                      !.snapshot = Event_getByPlannerId(procs[p].reqUser.id)])
    /\ TaskRead

\* getPlannerDashboard: const allTasks = await Task.getByPlannerId(...);
\* res.status(200)
getPlannerDashboard_tasks(p) ==
    /\ At(p, {"getPlannerDashboard"}, "Task_getByPlannerId")
    /\ Respond(p, procs[p], 200)
    /\ TaskRead

\* getVendorDashboard and getVendorBookings: await
\* Event.getByVendorId(vendorId); the bookings answer 200, the dashboard
\* awaits Task.getByAssignedUser.
Event_getByVendorId_get(p) ==
    /\ At(p, {"getVendorDashboard", "getVendorBookings"}, "Event_getByVendorId")
    /\ LET r == [procs[p] EXCEPT
                    !.snapshot = Event_getByVendorId(procs[p].reqUser.id)]
       IN  IF r.kind = "getVendorBookings"
           THEN Respond(p, r, 200)
           ELSE Continue(p, [r EXCEPT !.pc = "Task_getByAssignedUser"])
    /\ TaskRead

\* getVendorDashboard: const allTasks = await Task.getByAssignedUser(...);
\* then it awaits Vendor.getProfileCompletion.
getVendorDashboard_tasks(p) ==
    /\ At(p, {"getVendorDashboard"}, "Task_getByAssignedUser")
    /\ Continue(p, [procs[p] EXCEPT !.pc = "Vendor_getProfileCompletion"])
    /\ TaskRead

\* getVendorDashboard: const profileCompletion = await
\* Vendor.getProfileCompletion(vendorId); res.status(200)
getVendorDashboard_completion(p) ==
    /\ At(p, {"getVendorDashboard"}, "Vendor_getProfileCompletion")
    /\ IF Vendor_getProfileCompletion(procs[p].reqUser.id) = "throw"
       THEN Throw(p, procs[p], "TypeError")
       ELSE Respond(p, procs[p], 200)
    /\ TaskRead

DashboardSteps(p) ==
    \/ getPlannerDashboard_events(p)
    \/ getPlannerDashboard_tasks(p)
    \/ Event_getByVendorId_get(p)
    \/ getVendorDashboard_tasks(p)
    \/ getVendorDashboard_completion(p)

(***************************************************************************)
(* The vendor routes, GET /api/auth/me and PUT /api/auth/profile-picture.  *)
(* Of a vendor's document the model keeps the fields of every user; the    *)
(* writes of the other fields (portfolio, rating, verification,            *)
(* availability, profilePicture) are updates with none of the kept keys,   *)
(* which still reject when the document is gone.  The handlers of the      *)
(* cac-document and portfolio uploads are not in the repository.           *)
(***************************************************************************)
\* A request to a public route: the handler starts at once.
PublicArrive(p, r) ==
    /\ CanStart(p)
    /\ Start(p, r)
    /\ ArrivalUnchanged

\* GET /api/vendors
GET_vendors(p) ==
    PublicArrive(p, [Idle EXCEPT !.kind = "getVendors", !.entry = "Vendor_getAll"])

\* GET /api/vendors/search with req.query.q
GET_vendors_search(p, q) ==
    PublicArrive(p, [Idle EXCEPT !.kind = "searchVendors",
                                 !.entry = "Vendor_getAll", !.value = q])

\* GET /api/vendors/:id
GET_vendor(p, id) ==
    PublicArrive(p, [Idle EXCEPT !.kind = "getVendorById",
                                 !.entry = "Vendor_findById", !.paramId = id])

\* GET /api/vendors/profile/completion
GET_vendors_profile_completion(p, accessToken) ==
    GET_protected(p, "Bearer", accessToken, "requireRole", requireVendor, 0, 0)

\* PUT /api/vendors/profile with req.body, its category in value;
\* Vendor.updateProfile copies the keys of allowedFields before its await.
PUT_vendors_profile(p, caller, body, category) ==
    Enter(p, caller,
          Behind(requireVendor,
                 [Idle EXCEPT !.kind = "updateVendorProfile",
                              !.entry = "Vendor_findById", !.body = body,
                              !.value = category,
                              !.updates = safeUpdateData(Vendor_updateProfile(body))]))

\* POST /api/vendors/portfolio and DELETE /api/vendors/portfolio with
\* req.body.imageUrl
POST_vendors_portfolio(p, caller, imageUrl) ==
    Enter(p, caller,
          Behind(requireVendor,
                 [Idle EXCEPT !.kind = "addPortfolioItem",
                              !.entry = "portfolio_findById", !.value = imageUrl]))

DELETE_vendors_portfolio(p, caller, imageUrl) ==
    Enter(p, caller,
          Behind(requireVendor,
                 [Idle EXCEPT !.kind = "removePortfolioItem",
                              !.entry = "portfolio_findById", !.value = imageUrl]))

\* PUT /api/vendors/:id/verification with req.body.status
PUT_vendor_verification(p, caller, id, status) ==
    Enter(p, caller,
          Behind(requireAdmin,
                 [Idle EXCEPT !.kind = "updateVerificationStatus",
                              !.entry = "update", !.paramId = id,
                              !.value = status]))

\* PUT /api/vendors/:id/rating with req.body.rating, None when the rating
\* or the review count is no number in range
PUT_vendor_rating(p, caller, id, rating) ==
    Enter(p, caller,
          Behind(requireAdmin,
                 [Idle EXCEPT !.kind = "updateRating", !.entry = "update",
                              !.paramId = id, !.value = rating]))

\* GET /api/auth/me
GET_me(p, caller) ==
    Enter(p, caller, [Idle EXCEPT !.kind = "getProfile", !.entry = "findById"])

\* PUT /api/auth/profile-picture with req.file, None when multer attached
\* no file
PUT_profile_picture(p, caller, file) ==
    Enter(p, caller,
          [Idle EXCEPT !.kind = "uploadProfilePicture", !.entry = "upload",
                       !.value = file])

\* Vendor.getAll: the documents where('role', '==', ROLES.VENDOR) matches;
\* res.status(200).  The filter of a search on the names is not kept.
Vendor_getAll ==
    {i \in DOMAIN users : Exists(i) /\ users[i].role = ROLES.VENDOR}

Vendor_getAll_get(p) ==
    /\ At(p, {"getVendors", "searchVendors"}, "Vendor_getAll")
    /\ Respond(p, [procs[p] EXCEPT
                      !.snapshot = IF procs[p].kind = "searchVendors" THEN {}
                                   ELSE Vendor_getAll], 200)
    /\ TaskRead

\* GET /api/vendors/:id: const vendor = await Vendor.findById(req.params.id);
\* no document, or a document of another role, is a NotFoundError
getVendorById_findById(p) ==
    /\ At(p, {"getVendorById"}, "Vendor_findById")
    /\ LET vendor == findById(procs[p].paramId)
       IN  IF vendor = NullUser
           THEN Throw(p, procs[p], "NotFoundError")
           ELSE IF vendor.role # "vendor"
           THEN Throw(p, procs[p], "NotFoundError")
           ELSE Respond(p, [procs[p] EXCEPT !.seen = userObj(vendor.id)], 200)
    /\ TaskRead

\* Vendor.addPortfolioItem / Vendor.removePortfolioItem: const vendor =
\* await super.findById(vendorId); vendor.portfolio of a null vendor is a
\* TypeError; then BaseUser.update(vendorId, { portfolio }).
portfolio_findById(p) ==
    /\ At(p, {"addPortfolioItem", "removePortfolioItem"}, "portfolio_findById")
    /\ IF findById(procs[p].reqUser.id) = NullUser
       THEN Throw(p, procs[p], "TypeError")
       ELSE Continue(p, [procs[p] EXCEPT !.pc = "update"])
    /\ TaskRead

\* getProfile: const user = await BaseUser.findById(req.user.id); if (!user)
\* NotFoundError; res.status(200)
getProfile_findById(p) ==
    /\ At(p, {"getProfile"}, "findById")
    /\ LET user == findById(procs[p].reqUser.id)
       IN  IF user = NullUser
           THEN Throw(p, procs[p], "NotFoundError")
           ELSE Respond(p, [procs[p] EXCEPT !.seen = userObj(user.id)], 200)
    /\ TaskRead

\* uploadProfilePicture: const uploadResult = await streamUpload(...), which
\* resolves, or rejects into the catch that answers 500 'Upload failed';
\* then BaseUser.update(userId, { profilePicture }).
uploadProfilePicture_upload(p) ==
    /\ At(p, {"uploadProfilePicture"}, "upload")
    /\ \/ Continue(p, [procs[p] EXCEPT !.pc = "update"])
       \/ Respond(p, [procs[p] EXCEPT !.message = <<"Upload failed">>], 500)
    /\ TaskRead

VendorSteps(p) ==
    \/ Vendor_getAll_get(p)
    \/ getVendorById_findById(p)
    \/ portfolio_findById(p)
    \/ getProfile_findById(p)
    \/ uploadProfilePicture_upload(p)

\* The planner (user 1) and the vendor (user 2) have signed up and verified;
\* the planner has created the event and added the vendor to it.
TaskUsers == SubSeq(GateUsers, 1, 2)

Event1 ==
    [Event_create(1, 0) EXCEPT
        !.vendors = {[vendorId |-> 2, status |-> "pending"]}]

InitTask ==
    /\ users = TaskUsers
    /\ otps = <<>>
    /\ validCount = <<>>
    /\ refreshTokens = {}
    /\ tokenDocs = 0
    /\ now = 0
    /\ tasks = <<>>
    /\ events = <<Event1>>
    /\ procs = [p \in Procs |-> Idle]
    /\ resp = NoResp
    /\ issued = {}
    /\ exchanged = {}
    /\ loggedOut = {}
    /\ signedUp = {TaskUsers[i].email : i \in DOMAIN TaskUsers}

\* The routes that write tasks and events, from the one event with no task,
\* one request at a time, all within one instant of the clock.  A create
\* arrives while the collection of the tasks is empty; a second event can be
\* created; a PUT of a task can move it there.
NextTask ==
    \/ \E reqUser \in TaskCallers :
          tasks = <<>> /\ POST_tasks(1, reqUser, 1, NoUpdates)
    \/ \E reqUser \in TaskCallers, b1 \in BulkBodies :
          tasks = <<>> /\ POST_tasks_bulk(1, reqUser, 1, <<b1>>)
    \/ \E reqUser \in TaskCallers, id \in 1..MaxTasks :
          DELETE_task_assign(1, reqUser, id)
    \/ \E reqUser \in TaskCallers, id \in 1..MaxTasks :
          PUT_task_complete(1, reqUser, id)
    \/ \E reqUser \in TaskCallers, id \in 1..MaxTasks, userId \in {1, 2} :
          PUT_task_assign(1, reqUser, id, userId)
    \/ \E reqUser \in TaskCallers, id \in 1..MaxTasks,
          status \in {"cancelled", "done"} :
          PUT_task_status(1, reqUser, id, status)
    \/ \E reqUser \in TaskCallers, id \in 1..MaxTasks,
          body \in {b \in TaskBodies : b.plannerId = Absent} :
          PUT_task(1, reqUser, id, body)
    \/ \E reqUser \in TaskCallers, id \in 1..MaxTasks :
          DELETE_task(1, reqUser, id)
    \/ \E reqUser \in TaskCallers : POST_events(1, reqUser)
    \/ \E reqUser \in TaskCallers, body \in EventBodies :
          PUT_event(1, reqUser, 1, body)
    \/ \E reqUser \in TaskCallers : DELETE_event(1, reqUser, 1)
    \/ \E reqUser \in TaskCallers, status \in {"completed", "done"} :
          PUT_event_status(1, reqUser, 1, status)
    \/ \E reqUser \in TaskCallers, vendorId \in {1, 2} :
          POST_event_vendors(1, reqUser, 1, vendorId)
    \/ \E reqUser \in TaskCallers, email \in {EmailA, EmailB} :
          POST_event_vendors_by_email(1, reqUser, 1, email)
    \/ \E reqUser \in TaskCallers : DELETE_event_vendor(1, reqUser, 1, 2)
    \/ \E reqUser \in TaskCallers, status \in {"confirmed", "done"} :
          PUT_event_vendor_status(1, reqUser, 1, 2, status)
    \/ \E p \in Procs : TaskSteps(p)
    \/ \E p \in Procs : EventSteps(p)

SpecTask == InitTask /\ [][NextTask]_vars

\* Two creates of the planner in flight together: each Event.addTask reads
\* the event's array, pushes its id and writes the array back.
NextTaskRace ==
    \/ \E t \in TaskInstants : Tick(t)
    \/ \E p \in Procs, reqUser \in TaskCallers :
          POST_tasks(p, reqUser, 1, NoUpdates)
    \/ \E p \in Procs : TaskSteps(p)

SpecTaskRace == InitTask /\ [][NextTaskRace]_vars

\* A create, an assignment or an update of the planner in flight while the
\* clock moves and a second request changes or deletes the event, creates
\* another or changes the status of the event or of its vendor.
Planner1 ==
    [id |-> 1, email |-> <<97, 64, 120>>, role |-> "planner",
     fullName |-> "Ada Obi"]

NextEvent ==
    \/ \E t \in TaskInstants : Tick(t)
    \/ POST_tasks(1, Planner1, 1, NoUpdates)
    \/ PUT_task_assign(1, Planner1, 1, 2)
    \/ \E body \in TaskBodies : PUT_task(1, Planner1, 1, body)
    \/ \E p \in Procs : POST_events(p, Planner1)
    \/ \E p \in Procs, body \in EventBodies : PUT_event(p, Planner1, 1, body)
    \/ \E p \in Procs : DELETE_event(p, Planner1, 1)
    \/ \E p \in Procs : PUT_event_status(p, Planner1, 1, "completed")
    \/ \E p \in Procs : POST_event_vendors(p, Planner1, 1, 2)
    \/ \E p \in Procs : POST_event_vendors_by_email(p, Planner1, 1, EmailB)
    \/ \E p \in Procs : DELETE_event_vendor(p, Planner1, 1, 2)
    \/ \E p \in Procs : PUT_event_vendor_status(p, Planner1, 1, 2, "confirmed")
    \/ \E p \in Procs : DELETE_task(p, Planner1, 1)
    \/ \E p \in Procs : TaskSteps(p)
    \/ \E p \in Procs : EventSteps(p)

SpecEvent == InitTask /\ [][NextEvent]_vars

(***************************************************************************)
(* Every route behind the gate, by access token, from the state of         *)
(* SpecTask with an administrator as third user.                           *)
(***************************************************************************)
InitApi ==
    /\ users = GateUsers
    /\ otps = <<>>
    /\ validCount = <<>>
    /\ refreshTokens = {}
    /\ tokenDocs = 0
    /\ now = 0
    /\ tasks = <<>>
    /\ events = <<Event1>>
    /\ procs = [p \in Procs |-> Idle]
    /\ resp = NoResp
    /\ issued = {}
    /\ exchanged = {}
    /\ loggedOut = {}
    /\ signedUp = {GateUsers[i].email : i \in DOMAIN GateUsers}

\* The requests of the vendor, event, task and dashboard routes and of the
\* two profile routes, with the access tokens in tokens.
ApiRequests(p, tokens) ==
    \/ \E at \in tokens, eventId \in 1..MaxEvents :
          \/ POST_tasks(p, at, eventId, NoUpdates)
          \/ \E b1 \in BulkBodies : POST_tasks_bulk(p, at, eventId, <<b1>>)
          \/ GET_tasks(p, at, eventId)
          \/ GET_tasks_statistics(p, at, eventId)
          \/ GET_event(p, at, eventId)
          \/ \E body \in EventBodies : PUT_event(p, at, eventId, body)
          \/ DELETE_event(p, at, eventId)
          \/ \E status \in {"completed", "done"} :
                PUT_event_status(p, at, eventId, status)
          \/ GET_event_vendors(p, at, eventId)
          \/ \E vendorId \in 0..2 : POST_event_vendors(p, at, eventId, vendorId)
          \/ \E email \in {NoEmail, EmailA, EmailB} :
                POST_event_vendors_by_email(p, at, eventId, email)
          \/ DELETE_event_vendor(p, at, eventId, 2)
          \/ \E status \in {"confirmed", "done"} :
                PUT_event_vendor_status(p, at, eventId, 2, status)
    \/ \E at \in tokens, id \in 1..MaxTasks :
          \/ GET_task(p, at, id)
          \/ \E body \in TaskBodies : PUT_task(p, at, id, body)
          \/ DELETE_task(p, at, id)
          \/ \E userId \in 0..2 : PUT_task_assign(p, at, id, userId)
          \/ DELETE_task_assign(p, at, id)
          \/ \E status \in {"cancelled", "done"} :
                PUT_task_status(p, at, id, status)
          \/ PUT_task_complete(p, at, id)
    \/ \E at \in tokens, id \in UserIds :
          \/ \E status \in {"approved", "done"} :
                PUT_vendor_verification(p, at, id, status)
          \/ \E rating \in {None, "5"} : PUT_vendor_rating(p, at, id, rating)
    \/ \E at \in tokens :
          \/ GET_my_tasks(p, at)
          \/ POST_events(p, at)
          \/ GET_events(p, at)
          \/ GET_events_statistics(p, at)
          \/ \E q \in {None, "party"} : GET_events_search(p, at, q)
          \/ GET_dashboard_planner(p, at)
          \/ GET_dashboard_vendor(p, at)
          \/ GET_dashboard_vendor_bookings(p, at)
          \/ \E availability \in {None, "true"} :
                PUT_dashboard_vendor_availability(p, at, availability)
          \/ GET_vendors_profile_completion(p, at)
          \/ \E body \in {b \in ProfileBodies : b.password = None /\ b.email = NoEmail},
                category \in {None, "catering", "fishing"} :
                PUT_vendors_profile(p, at, body, category)
          \/ \E imageUrl \in {None, "url"} :
                \/ POST_vendors_portfolio(p, at, imageUrl)
                \/ DELETE_vendors_portfolio(p, at, imageUrl)
          \/ GET_me(p, at)
          \/ \E file \in {None, "image"} : PUT_profile_picture(p, at, file)

\* The public routes of the vendors.
PublicRequests(p) ==
    \/ GET_vendors(p)
    \/ \E q \in {None, "ade"} : GET_vendors_search(p, q)
    \/ \E id \in UserIds : GET_vendor(p, id)

ApiSteps(p) ==
    \/ authenticate(p)
    \/ authenticate_reject(p)
    \/ requireRole(p)
    \/ handler(p)
    \/ TaskSteps(p)
    \/ EventSteps(p)
    \/ ReadSteps(p)
    \/ DashboardSteps(p)
    \/ VendorSteps(p)
    \/ Vendor_updateProfile_findById(p)
    \/ updateProfile_update(p)
    \/ updateProfile_get(p)

NextApi ==
    \/ ApiRequests(1, GateTokens)
    \/ PublicRequests(1)
    \/ \E p \in Procs : ApiSteps(p)

SpecApi == InitApi /\ [][NextApi]_vars

(***************************************************************************)
(* The whole system: every route the application mounts, from empty        *)
(* collections.                                                            *)
(***************************************************************************)
NextAll ==
    \/ \E t \in Instants : Tick(t)
    \/ \E p \in Procs, email \in Emails, password \in Passwords :
          \/ \E role \in {None, ROLES.PLANNER, ROLES.VENDOR} :
                POST_signup(p, email, password, role)
          \/ POST_login(p, email, password)
    \/ \E p \in Procs, userId \in UserIds, otp \in Codes :
          POST_verifyEmail(p, userId, otp)
    \/ \E p \in Procs, userId \in UserIds : POST_resendOTP(p, userId)
    \/ \E p \in Procs, email \in Emails : POST_forgotPassword(p, email)
    \/ \E p \in Procs, email \in Emails, otp \in Codes, password \in Passwords :
          POST_resetPassword(p, email, otp, password)
    \/ \E p \in Procs, rt \in RefreshInputs : POST_refresh(p, rt)
    \/ \E p \in Procs, at \in AccessInputs, rt \in issued \cup {NoToken} :
          POST_logout(p, at, rt)
    \/ \E p \in Procs, at \in AccessInputs : POST_logoutAll(p, at)
    \/ \E p \in Procs, at \in AccessInputs, cur \in Passwords, new \in Passwords :
          PUT_changePassword(p, at, cur, new)
    \/ \E p \in Procs, at \in AccessInputs, body \in ProfileBodies :
          PUT_profile(p, at, body)
    \/ \E p \in Procs : ApiRequests(p, AccessInputs)
    \/ \E p \in Procs : PublicRequests(p)
    \/ \E p \in Procs :
          \/ SignupSteps(p)
          \/ OtpIssueSteps(p)
          \/ VerifyEmailSteps(p)
          \/ ResetPasswordSteps(p)
          \/ RefreshSteps(p)
          \/ ProtectedSteps(p)
          \/ LoginSteps(p)
          \/ ProfileSteps(p)
          \/ FaultSteps(p)
          \/ requireRole(p)
          \/ handler(p)
          \/ TaskSteps(p)
          \/ EventSteps(p)
          \/ ReadSteps(p)
          \/ DashboardSteps(p)
          \/ VendorSteps(p)

SpecAll == Init /\ [][NextAll]_vars

(***************************************************************************)
(* Properties.  Requests are the requests in flight and the one that has   *)
(* just answered (resp holds it for one step).                             *)
(***************************************************************************)
Requests == {procs[p] : p \in Procs} \cup {resp}

\* C1: a POST /refresh that presents a token some earlier POST /refresh has
\* already exchanged successfully (the earlier one had answered before this
\* one started) answers 401.
C1_ReplayFails ==
    (resp.kind = "refreshToken" /\ resp.replay) => resp.status = 401

\* C2: two POST /refresh presenting the same token and running concurrently
\* never both answer 200: no refresh answers 200 when a refresh of the same
\* token answered 200 while it was in flight.
C2_OneRotationWins ==
    ~(resp.kind = "refreshToken" /\ resp.status = 200 /\ resp.peerSucceeded)

\* C3: a verifyOTP call made when every stored record of its (userId, code,
\* purpose) has already been validated returns invalid ("Invalid OTP code")
\* and marks nothing, expired or not.
C3_SingleUse ==
    \A r \in Requests :
       r.late => /\ r.otpResult = "Invalid OTP code"
                 /\ r.otpDoc = 0
                 /\ ~r.marked

C3_Witness ==
    /\ resp.kind \in {"verifyEmail", "resetPassword"}
    /\ resp.late
    /\ resp.status = 400
    /\ \E d \in DOMAIN otps : /\ otps[d].userId = resp.user
                              /\ otps[d].otp = resp.otp
                              /\ otps[d].type = OtpType(resp.kind)
                              /\ otps[d].used
                              /\ validCount[d] = 1
                              /\ ~verifyOTP_expired(otps[d], now)

\* C4: no stored OTP record is validated by more than one verifyOTP call,
\* however the calls' query and update interleave.
C4_AtMostOneValid ==
    \A d \in DOMAIN otps : validCount[d] <= 1

\* C5: a verifyOTP call whose matched record's expiresAt lies before the
\* time of the call returns invalid ("OTP code has expired") and does not
\* mark the record used.
C5_ExpiredFails ==
    \A r \in Requests :
       r.afterExpiry => /\ r.otpResult = "OTP code has expired"
                        /\ r.pc = "done"
                        /\ r.status = 400
                        /\ ~r.marked

C5_Witness ==
    /\ resp.kind \in {"verifyEmail", "resetPassword"}
    /\ resp.afterExpiry
    /\ resp.status = 400
    /\ otps[resp.otpDoc].userId = resp.user
    /\ otps[resp.otpDoc].otp = resp.otp
    /\ otps[resp.otpDoc].type = OtpType(resp.kind)
    /\ ~otps[resp.otpDoc].used
    /\ otps[resp.otpDoc].expiresAt < now

\* C6: the record that makes reset-password pass verifyOTP has purpose
\* password_reset and the one that makes verify-email pass has purpose
\* email_verification; neither route succeeds without such a record.
C6_PurposeScoped ==
    \A r \in Requests :
       /\ r.otpResult = "valid" =>
             otps[r.otpDoc].type =
                (IF r.kind = "resetPassword" THEN "password_reset"
                                             ELSE "email_verification")
       /\ (r.kind \in {"verifyEmail", "resetPassword"} /\ r.status = 200) =>
             r.otpResult = "valid"

C6_Witness ==
    /\ resp.kind = "resetPassword"
    /\ resp.status = 400
    /\ resp.otpResult = "Invalid OTP code"
    /\ \E d \in DOMAIN otps : /\ otps[d].userId = resp.user
                              /\ otps[d].otp = resp.otp
                              /\ otps[d].type = "email_verification"
                              /\ ~otps[d].used
                              /\ ~verifyOTP_expired(otps[d], now)

\* C7: a POST /refresh that presents a token issued to the user before a
\* POST /logout-all of that user which has completed answers 401.
C7_LogoutAllRevokes ==
    (resp.kind = "refreshToken" /\ resp.afterLogoutAll) => resp.status = 401

\* C8: when reset-password or change-password answers 200 for a user, the
\* refresh-token collection holds no document of that user.
C8_CredentialChangeRevokes ==
    (resp.kind \in {"resetPassword", "changePassword"} /\ resp.status = 200)
       => tokenDocsByUser(resp.user) = {}

\* C9: a signup that starts after a signup with the same address up to
\* letter case has answered 201 fails with 409 at the findByEmail check,
\* before any user or OTP document is created.
C9_DuplicateSignup ==
    \A r \in Requests :
       (r.kind = "signup" /\ r.dup) =>
           \/ r.pc = "findByEmail"
           \/ /\ r.pc = "done"
              /\ r.error = "ConflictError"
              /\ r.status = 409
              /\ r.user = 0

C9_Witness ==
    /\ resp.kind = "signup"
    /\ resp.dup
    /\ resp.status = 409
    /\ resp.email # toLowerCase(resp.email)
    /\ \E i \in DOMAIN users : users[i].email = toLowerCase(resp.email)

\* C10: no two user documents have the same case-folded email.
C10_EmailUnique ==
    \A i, j \in DOMAIN users :
       i # j => toLowerCase(users[i].email) # toLowerCase(users[j].email)

\* C11: no login, verify-email or refresh that read a user document with
\* isActive = false generates a token pair or stores a refresh-token
\* document.
C11_InactiveNoSession ==
    \A r \in Requests :
       (/\ r.kind \in {"login", "verifyEmail", "refreshToken"}
        /\ r.seen # NullUser
        /\ ~r.seen.isActive)
          => (r.tokens = NoTokens /\ r.stored = 0 /\ r.status # 200)

\* C12: a login for an existing account with isActive = false answers 403,
\* whatever the password, and stores no refresh token.
C12_DeactivatedLogin403 ==
    (resp.kind = "login" /\ resp.seen # NullUser /\ ~resp.seen.isActive)
       => (resp.status = 403 /\ resp.stored = 0)

\* C13: authenticate answers 401 when the header is absent or not a Bearer
\* header, when the token fails verification, or when the token's user has
\* no document, and 403 when the document has isActive = false; it then
\* neither calls next nor attaches an identity; a request with a bad header
\* or a token that fails verification when the request enters is answered
\* there and never gets past it; a request whose lookup found no document
\* or an inactive one is answered at the lookup, and what the lookup found
\* is what the users collection held for the token's userId.  (The store
\* answering the lookup is assumed.)
C13_GateRejects ==
    /\ [](\A r \in Requests :
            (/\ r.kind = "gate"
             /\ \/ r.accessToken = NoToken
                \/ r.scheme # "Bearer"
                \/ ~verifyAccessToken(r.accessToken, r.enteredAt))
               => /\ r.nextCalls = 0
                  /\ r.reqUser = NoIdentity
                  /\ r.pc = "done"
                  /\ r.status = 401)
    /\ [](\A r \in Requests :
            (/\ r.kind = "gate"
             /\ r.accessToken # NoToken
             /\ r.scheme = "Bearer"
             /\ verifyAccessToken(r.accessToken, r.enteredAt)
             /\ r.pc # "authenticate"
             /\ ~r.storeError)
               => /\ (r.seen = NullUser) =>
                        (/\ r.pc = "done"
                         /\ r.status = 401
                         /\ r.nextCalls = 0
                         /\ r.reqUser = NoIdentity
                         /\ ~r.admitted)
                  /\ (r.seen # NullUser /\ ~r.seen.isActive) =>
                        (/\ r.seen.id = r.accessToken.userId
                         /\ r.pc = "done"
                         /\ r.status = 403
                         /\ r.nextCalls = 0
                         /\ r.reqUser = NoIdentity
                         /\ ~r.admitted))
    /\ []((resp.kind = "gate" /\ resp.nextCalls = 0 /\ ~resp.storeError) =>
            LET bad == \/ resp.accessToken = NoToken
                       \/ resp.scheme # "Bearer"
                       \/ ~verifyAccessToken(resp.accessToken, resp.enteredAt)
                uid == resp.accessToken.userId
            IN  /\ resp.reqUser = NoIdentity
                /\ ~resp.admitted
                /\ resp.status = (IF bad \/ ~Exists(uid) THEN 401 ELSE 403)
                /\ (~bad /\ Exists(uid)) => ~users[uid].isActive)
    /\ [][\A p \in Procs :
             (/\ procs[p].kind = "gate"
              /\ procs[p].pc = "authenticate"
              /\ procs'[p].pc # procs[p].pc) =>
                LET after == IF procs'[p].kind = "gate" THEN procs'[p] ELSE resp'
                    uid == procs[p].accessToken.userId
                IN  \/ after.storeError
                    \/ after.seen = (IF Exists(uid) THEN userObj(uid)
                                     ELSE NullUser)]_vars

C13_Witness ==
    /\ resp.kind = "gate"
    /\ resp.status = 403
    /\ resp.nextCalls = 0
    /\ resp.scheme = "Bearer"
    /\ verifyAccessToken(resp.accessToken, resp.enteredAt)
    /\ Exists(resp.accessToken.userId)
    /\ ~users[resp.accessToken.userId].isActive

\* C14: whenever authenticate has called next, req.user has exactly the
\* fields id, email, role and fullName, with the values of the document of
\* the userId of the token, verified when the request entered, as read,
\* which was active; the password hash is not among them.
C14_GateIdentity ==
    \A r \in Requests :
       (r.kind = "gate" /\ r.nextCalls >= 1) =>
          /\ DOMAIN r.reqUser = {"id", "email", "role", "fullName"}
          /\ r.scheme = "Bearer"
          /\ verifyAccessToken(r.accessToken, r.enteredAt)
          /\ r.seen.id = r.accessToken.userId
          /\ r.seen.isActive
          /\ r.seen.password # NoHash
          /\ r.reqUser.id = r.seen.id
          /\ r.reqUser.email = r.seen.email
          /\ r.reqUser.role = r.seen.role
          /\ r.reqUser.fullName = r.seen.fullName
          /\ r.nextCalls = 1

C14_Witness ==
    /\ procs[1].kind = "gate"
    /\ procs[1].pc = "guard"
    /\ procs[1].reqUser =
          [id |-> 2, email |-> EmailB, role |-> "vendor", fullName |-> "Bisi Ade"]
    /\ users[2].password = bcryptHash(Password1)

\* C15: optionalAuth calls next exactly once and sends no response of its
\* own (a route with no guard behind it hands the request on, and what ends
\* a request behind it is the refusal of the route's guard); req.user is the identity of the user it read when the header is a
\* Bearer header, the token verifies when the request enters, the store
\* answered and the user exists and is active, and null in every other case.
C15_OptionalGate ==
    \A r \in Requests :
       (r.kind = "optional" /\ r.pc # "optionalAuth") =>
          /\ r.nextCalls = 1
          /\ r.reqUser =
                (IF /\ r.accessToken # NoToken
                    /\ r.scheme = "Bearer"
                    /\ verifyAccessToken(r.accessToken, r.enteredAt)
                    /\ ~r.storeError
                    /\ r.seen # NullUser
                    /\ r.seen.isActive
                 THEN [id |-> r.seen.id, email |-> r.seen.email,
                       role |-> r.seen.role, fullName |-> r.seen.fullName]
                 ELSE NoIdentity)
          /\ r.seen # NullUser => r.seen.id = r.accessToken.userId
          /\ r.guard = "none" => (r.pc = "next" /\ r.status = 0 /\ r.error = None)
          /\ r.pc = "done" => (r.guard # "none" /\ r.message # <<>>)

C15_Witness ==
    /\ resp.kind = "optional"
    /\ resp.guard = "none"
    /\ resp.pc = "next"
    /\ resp.nextCalls = 1
    /\ resp.reqUser = NoIdentity
    /\ resp.scheme = "Bearer"
    /\ verifyAccessToken(resp.accessToken, resp.enteredAt)
    /\ ~resp.storeError
    /\ resp.seen # NullUser
    /\ ~resp.seen.isActive

\* C16: requireRole calls next exactly when req.user is set and its role is
\* one of the allowed roles; for an identity with another role it answers
\* 403 with a message that names every required role and the actual role;
\* with no identity it answers 401; when it calls next it sends nothing
\* itself.
C16_RoleCheck ==
    \A r \in Requests :
       (/\ r.guard = "requireRole"
        /\ r.nextCalls >= 1
        /\ r.pc \in {"handler", "next", "done"})
          => LET allowed == {r.roles[i] : i \in DOMAIN r.roles}
                 named == {r.message[i] : i \in DOMAIN r.message}
             IN  /\ r.admitted <=>
                       (r.reqUser # NoIdentity /\ r.reqUser.role \in allowed)
                 /\ r.admitted => (r.message = <<>> /\ r.status \notin {401, 403})
                 /\ (r.reqUser # NoIdentity /\ ~r.admitted) =>
                       /\ r.status = 403
                       /\ allowed \subseteq named
                       /\ r.reqUser.role \in named
                 /\ r.reqUser = NoIdentity => r.status = 401

C16_Witness ==
    /\ resp.kind = "gate"
    /\ resp.guard = "requireRole"
    /\ resp.reqUser.role = "vendor"
    /\ resp.roles = <<"planner">>
    /\ resp.status = 403
    /\ resp.message = <<"Access denied. Required role: ", "planner",
                        ". Your role: ", "vendor">>

\* C17: requireOwnerOrAdmin calls next exactly when the identity's id equals
\* the owner id of the path parameter (of the body field when the path has
\* none) or the identity's role is admin; otherwise it answers 403 to an
\* authenticated caller; when it calls next it sends nothing itself.
C17_OwnerCheck ==
    \A r \in Requests :
       (/\ r.guard = "requireOwnerOrAdmin"
        /\ r.nextCalls >= 1
        /\ r.reqUser # NoIdentity
        /\ r.pc \in {"handler", "next", "done"})
          => LET owner == IF r.paramId # 0 THEN r.paramId ELSE r.bodyId
             IN  /\ r.admitted <=>
                       (r.reqUser.id = owner \/ r.reqUser.role = "admin")
                 /\ r.admitted => (r.message = <<>> /\ r.status \notin {401, 403})
                 /\ ~r.admitted => r.status = 403

C17_Witness ==
    /\ resp.kind = "gate"
    /\ resp.guard = "requireOwnerOrAdmin"
    /\ resp.reqUser.id = 1
    /\ resp.reqUser.role = "planner"
    /\ resp.paramId = 2
    /\ resp.status = 403

\* C18: a login for an active account with emailVerified = false answers
\* 401, even with the right password, and stores no refresh token.
C18_UnverifiedLogin401 ==
    (/\ resp.kind = "login"
     /\ resp.seen # NullUser
     /\ resp.seen.isActive
     /\ ~resp.seen.emailVerified)
       => (resp.status = 401 /\ resp.tokens = NoTokens /\ resp.stored = 0)

\* C19: a login for an active, verified account with the password whose
\* hash the account's document holds answers 200 with a token pair and
\* stores one refresh-token document.
C19_LoginSucceeds ==
    (/\ resp.kind = "login"
     /\ resp.seen # NullUser
     /\ resp.seen.isActive
     /\ resp.seen.emailVerified
     /\ resp.seen.password = bcryptHash(resp.password))
       => (resp.status = 200 /\ resp.tokens # NoTokens /\ resp.stored = 1)

\* C20: a verify-email whose user had, when verifyOTP ran its query, an
\* unused, unexpired email_verification record of its code answers 200
\* having marked such a record used, set emailVerified and stored exactly
\* one refresh-token document; every other verify-email answers 400 having
\* marked no record, set nothing and stored nothing.
C20_VerifyEmailEffect ==
    resp.kind = "verifyEmail" =>
       IF resp.usable
       THEN /\ resp.status = 200
            /\ resp.marked
            /\ otps[resp.otpDoc].userId = resp.userId
            /\ otps[resp.otpDoc].otp = resp.otp
            /\ otps[resp.otpDoc].type = "email_verification"
            /\ otps[resp.otpDoc].used
            /\ resp.setVerified
            /\ users[resp.userId].emailVerified
            /\ resp.stored = 1
       ELSE /\ resp.status = 400
            /\ ~resp.marked
            /\ ~resp.setVerified
            /\ resp.stored = 0

\* C21: a resend-otp that reads a user with emailVerified = true answers 400
\* and adds no otps document; one whose userId has no document answers 404
\* and adds none; one that reads an unverified user answers 200 having added
\* exactly one document, of type email_verification, for that user, which
\* was unused when stored and expires OtpTtl after the time read before the
\* write; no step of a resend-otp changes the users collection or a stored
\* otps document, and none but the store step adds one.
C21_ResendOtp ==
    /\ [](resp.kind = "resendOTP" =>
            /\ resp.seen = NullUser =>
                  /\ resp.status = 404
                  /\ resp.error = "NotFoundError"
                  /\ resp.newOtp = 0
            /\ (resp.seen # NullUser /\ resp.seen.emailVerified) =>
                  /\ resp.status = 400
                  /\ resp.error = "ValidationError"
                  /\ resp.newOtp = 0
            /\ (resp.seen # NullUser /\ ~resp.seen.emailVerified) =>
                  /\ resp.status = 200
                  /\ resp.newOtp \in DOMAIN otps
                  /\ otps[resp.newOtp].userId = resp.userId
                  /\ otps[resp.newOtp].type = "email_verification"
                  /\ otps[resp.newOtp].expiresAt = resp.stamp + OtpTtl)
    /\ [][\A p \in Procs :
             (procs[p].kind = "resendOTP" /\ procs'[p].pc # procs[p].pc) =>
                /\ users' = users
                /\ \A d \in DOMAIN otps : otps'[d] = otps[d]
                /\ IF procs[p].pc = "storeOTP"
                   THEN /\ Len(otps') = Len(otps) + 1
                        /\ procs'[p].newOtp = Len(otps')
                        /\ otps'[Len(otps')].used = FALSE
                   ELSE otps' = otps]_vars

C21_Witness ==
    /\ resp.kind = "resendOTP"
    /\ resp.status = 400
    /\ resp.seen.emailVerified
    /\ users[resp.userId].emailVerified
    /\ Len(otps) = 1

\* C22: every forgot-password answers 200; it answers at its lookup, having
\* stored nothing, exactly when no user document has the lower-cased
\* address; the otps document it adds otherwise, at its store step only,
\* is an unused password_reset code of the user it found.
C22_ForgotAlways200 ==
    /\ [](resp.kind = "forgotPassword" =>
            /\ resp.status = 200
            /\ resp.error = None
            /\ resp.seen = NullUser => resp.newOtp = 0
            /\ resp.newOtp # 0 =>
                  /\ resp.seen # NullUser
                  /\ resp.seen.email = toLowerCase(resp.email)
                  /\ resp.newOtp \in DOMAIN otps
                  /\ otps[resp.newOtp].userId = resp.seen.id
                  /\ otps[resp.newOtp].type = "password_reset")
    /\ [][\A p \in Procs :
             (procs[p].kind = "forgotPassword" /\ procs'[p].pc # procs[p].pc) =>
                /\ IF procs[p].pc = "storeOTP"
                   THEN /\ Len(otps') = Len(otps) + 1
                        /\ procs'[p].newOtp = Len(otps')
                        /\ otps'[Len(otps')].used = FALSE
                   ELSE otps' = otps
                /\ procs[p].pc = "findByEmail" =>
                      ((resp'.kind = "forgotPassword" /\ resp'.seen = NullUser)
                         <=> ~\E i \in DOMAIN users :
                                /\ users[i] # DeletedUser
                                /\ users[i].email = toLowerCase(procs[p].email))]_vars

\* C23: the status and the message of a forgot-password response are those
\* the handler gives in the other case (an address with an account where it
\* has none, and conversely): the two cases are answered alike.
C23_ForgotNonEnumeration ==
    resp.kind = "forgotPassword" =>
       [status |-> resp.status, message |-> resp.message]
          = forgotPassword_json(resp.seen = NullUser)

\* C24: a logout or logout-all that passed the gate answers 200, whether or
\* not a document of its token (of its user) is stored; when it has
\* answered, no such document is stored; and a step of it deletes only such
\* documents and adds none, so a second application, which finds none,
\* leaves the collection as the first left it.
C24_LogoutIdempotent ==
    /\ [](\A r \in Requests :
            (r.kind \in {"logout", "logoutAll"} /\ r.pc = "done") =>
               /\ r.status = (IF r.nextCalls = 1 THEN 200 ELSE 401)
               /\ r.error = None
               /\ r.nextCalls = 1 =>
                     (IF r.kind = "logout"
                      THEN tokenDocsByToken(r.refreshToken)
                      ELSE tokenDocsByUser(r.reqUser.id)) = {})
    /\ [][\A p \in Procs :
             (procs[p].kind \in {"logout", "logoutAll"} /\ procs'[p] # procs[p]) =>
                LET target == IF procs[p].kind = "logout"
                              THEN tokenDocsByToken(procs[p].refreshToken)
                              ELSE tokenDocsByUser(procs[p].accessToken.userId)
                IN  /\ refreshTokens' \subseteq refreshTokens
                    /\ (refreshTokens \ refreshTokens') \subseteq target
                    /\ target = {} => refreshTokens' = refreshTokens
                    /\ tokenDocs' = tokenDocs]_vars

C24_Witness ==
    /\ resp.kind = "logout"
    /\ resp.status = 200
    /\ resp.refreshToken = T1
    /\ resp.snapshot = {}
    /\ refreshTokens = {storeRefreshToken(1, 1, T0, 0),
                        storeRefreshToken(2, 2, TB, 0)}

\* C25: no step of a PUT /profile request, whatever the caller's role and
\* the body, changes the password or the role of a user document.
C25_ProfileNoEscalation ==
    [][\A p \in Procs :
          (procs[p].kind = "updateProfile" /\ procs'[p] # procs[p]) =>
             \A i \in DOMAIN users :
                /\ users'[i].password = users[i].password
                /\ users'[i].role = users[i].role]_vars

\* C26: a POST /refresh whose token is badly signed or expired when the
\* request enters is answered 401, by an authentication error with the
\* message 'Invalid or expired token'.
C26_NormalizedTokenErrors ==
    (/\ resp.kind = "refreshToken"
     /\ ~verifyRefreshToken(resp.refreshToken, resp.enteredAt))
       => /\ resp.status = 401
          /\ resp.error = "AuthenticationError"
          /\ resp.message = <<"Invalid or expired token">>

\* C27: a POST /refresh enters its handler only when the token verifies,
\* gets past its token check only when a stored document with that token
\* string has expiresAt in the future, and past its user check only when
\* the token's user has a document with isActive = true; a request that
\* fails a check is answered with an error status at that step and leaves
\* the refreshTokens collection as it was; a request that answers 200
\* passed all of them.
C27_RefreshPrecondition ==
    /\ [](resp.kind = "refreshToken" =>
            /\ resp.status # 200 =>
                  (resp.tokens = NoTokens /\ resp.stored = 0 /\ resp.deleted = 0
                     /\ resp.snapshot = {} /\ resp.status \in {401, 500})
            /\ resp.status = 200 =>
                  /\ verifyRefreshToken(resp.refreshToken, resp.enteredAt)
                  /\ resp.seen # NullUser
                  /\ resp.seen.isActive
                  /\ resp.seen.id = resp.refreshToken.userId
                  /\ resp.refreshToken.secret = "JWT_REFRESH_SECRET")
    /\ [][(procs' = procs /\ resp'.kind = "refreshToken") =>
             /\ ~verifyRefreshToken(resp'.refreshToken, now)
             /\ resp'.status # 200
             /\ refreshTokens' = refreshTokens]_vars
    /\ [][\A p \in Procs :
             /\ (procs[p].kind = "idle" /\ procs'[p].kind = "refreshToken") =>
                   /\ verifyRefreshToken(procs'[p].refreshToken, now)
                   /\ refreshTokens' = refreshTokens
             /\ (procs[p].kind = "refreshToken" /\ procs'[p].pc # procs[p].pc) =>
                LET rt == procs[p].refreshToken
                    uid == rt.userId
                    tokenOk == \E d \in refreshTokens :
                                  d.token = rt /\ d.expiresAt > now
                    userOk == /\ uid \in DOMAIN users
                              /\ users[uid] # DeletedUser
                              /\ users[uid].isActive
                IN  /\ procs[p].pc = "isRefreshTokenValid" =>
                          IF tokenOk
                          THEN refreshTokens' = refreshTokens
                          ELSE /\ resp'.refreshToken = rt
                               /\ resp'.status # 200
                               /\ refreshTokens' = refreshTokens
                    /\ procs[p].pc = "findById" =>
                          IF userOk
                          THEN procs'[p].pc = "revokeRefreshToken"
                          ELSE /\ resp'.refreshToken = rt
                               /\ resp'.status = 401
                               /\ refreshTokens' = refreshTokens]_vars

C27_Witness ==
    /\ resp.kind = "refreshToken"
    /\ resp.status = 401
    /\ verifyRefreshToken(resp.refreshToken, resp.enteredAt)
    /\ \E d \in refreshTokens : d.token = resp.refreshToken /\ d.expiresAt > now
    /\ resp.seen # NullUser
    /\ ~resp.seen.isActive

\* C28: a POST /refresh that answers 200 deleted exactly one document, the
\* one of the presented token, and stored exactly one, for the returned
\* token and the same user.
C28_RotationEffect ==
    (resp.kind = "refreshToken" /\ resp.status = 200) =>
       /\ resp.deleted = 1
       /\ resp.stored = 1
       /\ \E d \in refreshTokens :
             /\ d.id = tokenDocs
             /\ d.token = resp.tokens.refreshToken
             /\ d.userId = resp.refreshToken.userId

\* C29: a change-password that passed the gate with a current password
\* whose hash is not the stored one answers 401, and a reset-password whose
\* code is invalid, used or expired answers 400; both answer at that
\* check, before the password update and the revocation, having written
\* no password and deleted no refresh-token document.
C29_FailedChangeNoEffect ==
    /\ (/\ resp.kind = "changePassword"
        /\ resp.nextCalls = 1
        /\ Exists(resp.user)
        /\ users[resp.user].password # bcryptHash(resp.password))
          => /\ resp.status = 401
             /\ resp.snapshot = {}
    /\ (/\ resp.kind = "resetPassword"
        /\ resp.otpResult \in {"Invalid OTP code", "OTP code has expired"})
          => /\ resp.status = 400
             /\ resp.snapshot = {}
             /\ ~resp.marked

\* C30: a signup that answers 201 has created a user whose role is vendor
\* when the request named vendor and planner when it named planner or no
\* role, and the role in the response is the stored one.
C30_SignupRole ==
    (resp.kind = "signup" /\ resp.status = 201) =>
       LET role == IF resp.role = ROLES.VENDOR THEN ROLES.VENDOR
                   ELSE ROLES.PLANNER
       IN  /\ users[resp.user].role = role
           /\ resp.seen.role = users[resp.user].role

\* C31: no step of signup, verify-email, resend-otp, login, forgot-password,
\* reset-password, refresh, logout, logout-all, profile update or
\* change-password removes a user document: the existing ids stay, and the
\* collection only grows.
C31_NoUserDeletion ==
    [][/\ Len(users') >= Len(users)
       /\ \A i \in DOMAIN users :
             users[i] # DeletedUser => users'[i] # DeletedUser]_vars

C31_Witness ==
    /\ resp.kind = "updateProfile"
    /\ resp.status = 200
    /\ users # <<>>
    /\ users[1].fullName = "Eve Ojo"

\* C32: verifyOTP reports "OTP code has expired" only when no unused record
\* of the (userId, code, purpose) is unexpired, and the record it decides
\* on is the most recently created of the matching unused ones.
C32_MostRecentOtp ==
    \A r \in Requests :
       (r.kind \in {"verifyEmail", "resetPassword"} /\ r.otpDoc # 0
          /\ r.pc \in {"verifyOTP_update", "done"} /\ ~r.marked) =>
          LET docs == verifyOTP_query(r.user, r.otp, OtpType(r.kind))
          IN  /\ r.otpResult = "OTP code has expired" =>
                    \A d \in docs : otps[d].expiresAt < now
              /\ \A d \in docs : otps[d].createdAt <= otps[r.otpDoc].createdAt

\* C33: a verify-email for a user whose emailVerified was already true when
\* the request arrived does not answer 200 and issues no token pair.
C33_VerifyOnlyPending ==
    (resp.kind = "verifyEmail" /\ resp.wasVerified) =>
       (resp.status # 200 /\ resp.tokens = NoTokens /\ resp.stored = 0)

\* C34: a POST /refresh that passed its validity check before a logout-all
\* of its user completed, and that ends after that logout-all has completed,
\* stores no new refresh token: it does not answer 200 and the collection
\* holds no document of the token it generated.
C34_RevokeAllWins ==
    (/\ resp.kind = "refreshToken"
     /\ resp.validBeforeRevoke
     /\ resp.refreshToken \in loggedOut) =>
       /\ resp.status # 200
       /\ resp.stored = 0

\* C35: while a POST /refresh that passed its checks has not yet stored the
\* new token, and when it has failed with 500 at that write, the document
\* of the token it presented is still in the collection.
C35_RefreshFailureKeepsSession ==
    \A r \in Requests :
       (/\ r.kind = "refreshToken"
        /\ r.tokens # NoTokens
        /\ \/ r.pc = "storeRefreshToken"
           \/ r.pc = "done" /\ r.status = 500) =>
          tokenDocsByToken(r.refreshToken) # {}

\* C38: a signup that failed after it created the user leaves no user
\* document of its address, and every unverified user no signup is still
\* working on has an email_verification record.
C38_FailedSignupNoAccount ==
    /\ (resp.kind = "signup" /\ resp.status = 500 /\ resp.user # 0) =>
          findByEmail(resp.email) = {}
    /\ \A i \in DOMAIN users :
          (/\ users[i] # DeletedUser
           /\ ~users[i].emailVerified
           /\ \A p \in Procs : ~(procs[p].kind = "signup" /\ procs[p].user = i)) =>
             \E d \in DOMAIN otps : /\ otps[d].userId = i
                                    /\ otps[d].type = "email_verification"

\* C36: a step of a POST /logout deletes only refresh-token documents whose
\* userId is the id of the authenticated caller.
C36_LogoutScope ==
    [][\A p \in Procs :
          (procs[p].kind = "logout" /\ procs'[p].pc # procs[p].pc) =>
             \A d \in refreshTokens \ refreshTokens' :
                d.userId = procs[p].reqUser.id]_vars

\* C37: a logout-all or change-password request that presents the access
\* token of an issued session of an active user is admitted by authenticate
\* (next is called once, no 401 or 403 of the gate), whatever the
\* refresh-token collection holds and whichever logout-all,
\* change-password or reset-password has completed before.
C37_GateIgnoresTokenStore ==
    \A r \in Requests :
       (/\ r.kind \in {"logoutAll", "changePassword"}
        /\ r.pc # "authenticate"
        /\ \E t \in issued : AccessOf(t) = r.accessToken
        /\ users[r.accessToken.userId] # DeletedUser
        /\ users[r.accessToken.userId].isActive) =>
          /\ r.nextCalls = 1
          /\ r.reqUser.id = r.accessToken.userId

C37_Witness ==
    /\ resp.kind = "logoutAll"
    /\ resp.afterLogoutAll
    /\ resp.nextCalls = 1
    /\ resp.status = 200
    /\ tokenDocsByUser(resp.user) = {}
    /\ users[1].password = <<"bcrypt", Password2>>

\* C39: every stored task has completed = TRUE exactly when its status is
\* 'completed', and a completedAt that is not null exactly when completed.
C39_TaskCompletion ==
    \A i \in DOMAIN tasks :
       tasks[i] # DeletedTask =>
       /\ tasks[i].completed <=> (tasks[i].status = "completed")
       /\ (tasks[i].completedAt # NullTime) <=> tasks[i].completed

====
